---- MODULE Spec2Model ----
(***************************************************************************)
(* A model of the e2p library (effect size -> predictive metrics).         *)
(*                                                                         *)
(* Reals (numpy float64) are fixed-point integers in units of 1/Q.  Two    *)
(* places where float64 behaves differently from a coarse fixed point are  *)
(* kept as float64 has them:                                               *)
(*   - a normal CDF is exactly 0 or 1 only beyond |z| >= CdfSaturation,    *)
(*     so "sensitivity == 0" and "specificity < 1" branch as in the code;  *)
(*   - normal densities are carried by their logarithm, so the posterior   *)
(*     of compute_pt_from_threshold underflows ("denominator == 0") only   *)
(*     where exp() underflows in float64.                                  *)
(* float nan and +/-inf are the sentinels NaN, PosInf, NegInf.             *)
(***************************************************************************)
EXTENDS Integers, Sequences, FiniteSets, TLC

VARIABLES
    op,      \* name of the API operation of the last call ("none" at start)
    args,    \* the arguments of the last call
    err,     \* the exception the last call raised, or "none"
    ret,     \* the value the last call returned, or NoResult
    steps,   \* the computation phases the last call ran, in order
    rng,     \* numpy's process-wide random state (np.random)
    bin,     \* the E2PBinary instance, or NoObject
    cont,    \* the E2PContinuous instance, or NoObject
    kde,     \* where the root of the KDE posterior lies in its search interval
    hist     \* the reference call that later identical calls are compared with

vars == <<op, args, err, ret, steps, rng, bin, cont, kde, hist>>

----------------------------------------------------------------------------
(* Fixed-point reals                                                        *)

Q == 1000
NaN == 2100000000
PosInf == 2000000000
NegInf == -2000000000

IsNaN(x) == x = NaN
IsInf(x) == x = PosInf \/ x = NegInf
IsFinite(x) == ~IsNaN(x) /\ ~IsInf(x)

Abs(x) == IF x < 0 THEN -x ELSE x
Max(a, b) == IF a >= b THEN a ELSE b
Min(a, b) == IF a <= b THEN a ELSE b

\* a / b rounded to the nearest integer, b > 0
DivRound(a, b) ==
    IF a >= 0 THEN (2 * a + b) \div (2 * b)
    ELSE -((2 * (-a) + b) \div (2 * b))

\* a / b for any b # 0
DivSigned(a, b) == IF b > 0 THEN DivRound(a, b) ELSE DivRound(-a, -b)

FMul(a, b) == DivRound(a * b, Q)
FDiv(a, b) == DivSigned(a * Q, b)

RECURSIVE ISqrtIter(_, _, _)
ISqrtIter(n, lo, hi) ==
    IF lo >= hi THEN lo
    ELSE LET mid == (lo + hi + 1) \div 2
         IN ISqrtIter(n, IF mid * mid <= n THEN mid ELSE lo,
                      IF mid * mid <= n THEN hi ELSE mid - 1)

\* floor(sqrt(n)) for 0 <= n < 2^31
ISqrt(n) == ISqrtIter(n, 0, Min(n, 46340))

\* np.sqrt on a fixed-point real: nan for a negative argument
FSqrt(x) ==
    IF IsNaN(x) \/ x < 0 THEN NaN
    ELSE IF x = PosInf THEN PosInf
    ELSE ISqrt(x * Q)

----------------------------------------------------------------------------
(* Elementary functions: np.log, np.exp, np.sin(pi/2 * k), norm.cdf         *)

Ln2 == 693

\* ln(m) for m in [Q, 2Q): 2*atanh(u), u = (m-1)/(m+1), four terms
LnMantissa(m) ==
    LET u  == FDiv(m - Q, m + Q)
        u2 == FMul(u, u)
        u3 == FMul(u2, u)
        u5 == FMul(u3, u2)
        u7 == FMul(u5, u2)
    IN 2 * (u + DivRound(u3, 3) + DivRound(u5, 5) + DivRound(u7, 7))

RECURSIVE Ln(_)
\* np.log(x) for x > 0
Ln(x) ==
    IF x >= 2 * Q THEN Ln(DivRound(x, 2)) + Ln2
    ELSE IF x < Q THEN Ln(2 * x) - Ln2
    ELSE LnMantissa(x)

\* exp(r) for 0 <= r < Ln2, Taylor series to the 5th power
ExpSmall(r) ==
    LET r2 == FMul(r, r)
        r3 == FMul(r2, r)
        r4 == FMul(r3, r)
        r5 == FMul(r4, r)
    IN Q + r + DivRound(r2, 2) + DivRound(r3, 6) + DivRound(r4, 24)
         + DivRound(r5, 120)

RECURSIVE Exp(_)
\* np.exp(x), for x <= 14 (the result must fit the integers of the checker)
Exp(x) ==
    IF x < 0 THEN FDiv(Q, Exp(-x))
    ELSE IF x >= Ln2 THEN 2 * Exp(x - Ln2)
    ELSE ExpSmall(x)

\* 1000 * Phi(z) at z = 0, 0.25, ..., 4.0
CdfTable ==
    <<500, 599, 691, 773, 841, 894, 933, 960, 977, 988, 994, 997, 999,
      999, 999, 999, 999>>

CdfStep == 250
CdfSaturation == 8292

\* Phi(z) for z >= 0, below saturation: table with linear interpolation
CdfUpper(z) ==
    LET i    == z \div CdfStep
        frac == z - i * CdfStep
    IN IF i >= Len(CdfTable) - 1 THEN Q - 1
       ELSE Min(Q - 1, CdfTable[i + 1]
                + DivRound((CdfTable[i + 2] - CdfTable[i + 1]) * frac, CdfStep))

\* the standard normal CDF; exactly 0 or 1 only where float64 is
StdNormalCdf(z) ==
    IF IsNaN(z) THEN NaN
    ELSE IF z >= CdfSaturation THEN Q
    ELSE IF z <= -CdfSaturation THEN 0
    ELSE IF z >= 0 THEN CdfUpper(z)
    ELSE Q - CdfUpper(-z)

\* stats.norm.cdf(x, loc=mean, scale=std)
NormalCdf(x, mean, std) ==
    IF IsNaN(x) \/ IsNaN(mean) \/ IsNaN(std) THEN NaN
    ELSE StdNormalCdf(FDiv(x - mean, std))

HalfPi == 1571

\* np.sin(x) for -HalfPi <= x <= 3*HalfPi, Taylor series after reflection
Sin(x) ==
    LET y  == IF x > HalfPi THEN 2 * HalfPi - x ELSE x
        y2 == FMul(y, y)
        y3 == FMul(y2, y)
        y5 == FMul(y3, y2)
        y7 == FMul(y5, y2)
        s  == y - DivRound(y3, 6) + DivRound(y5, 120) - DivRound(y7, 5040)
    IN Max(-Q, Min(Q, s))

----------------------------------------------------------------------------
(* parametric.py: reliability model                                         *)

\* the result of a call: a value, or the exception raised
Ok(v) == [raised |-> FALSE, error |-> "none", value |-> v]
Raise(e) == [raised |-> TRUE, error |-> e, value |-> NaN]

\* Python's chained comparisons 0 < x < 1 and 0 < x <= 1 (False on nan)
InOpenUnit(x) == ~IsNaN(x) /\ 0 < x /\ x < Q
InHalfOpenUnit(x) == ~IsNaN(x) /\ 0 < x /\ x <= Q

\* a variant that takes the sine of kappa itself
attenuate_d_radians(true_d, kappa) ==
    IF ~IsFinite(kappa) \/ ~IsFinite(true_d) THEN NaN
    ELSE LET s == FSqrt(Sin(kappa))
         IN IF IsNaN(s) THEN NaN ELSE FMul(true_d, s)

attenuate_d(true_d, kappa) ==
    IF ~IsFinite(kappa) \/ ~IsFinite(true_d) THEN NaN
    ELSE LET s == FSqrt(Sin(FMul(HalfPi, kappa)))
         IN IF IsNaN(s) THEN NaN ELSE FMul(true_d, s)

\* a variant that clamps the reliability into (0, 1] instead of raising
compute_sigma_from_icc_clamped(icc) ==
    Ok(FDiv(Q, FSqrt(Max(1, Min(Q, icc)))))

compute_sigma_from_icc(icc) ==
    IF ~IsNaN(icc) /\ (icc <= 0 \/ icc > Q)
    THEN Raise("ValueError: ICC must be in (0, 1]")
    ELSE IF IsNaN(icc) THEN Ok(NaN)
    ELSE Ok(FDiv(Q, FSqrt(icc)))

----------------------------------------------------------------------------
(* parametric.py: threshold / posterior duality                             *)

LnSqrt2Pi == 919
\* ln of the smallest positive float64: exp() of less is exactly 0.0
LnMinFloat == -745133
\* ln(2^53): a sum a + b with ln(b/a) above it is exactly b in float64
LnPrecision == 36737
\* beyond this the sigmoid differs from 0 or 1 by less than 1/Q
SigmoidClamp == 7000

\* ln of _normal_pdf(x, mean, std)
LnNormalPdf(x, mean, std) ==
    LET z == FDiv(x - mean, std)
    IN -DivRound(FMul(z, z), 2) - Ln(std) - LnSqrt2Pi

\* 1 / (1 + exp(-x)), exactly 0 or 1 only where float64 is
Sigmoid(x) ==
    IF x >= LnPrecision THEN Q
    ELSE IF x >= SigmoidClamp THEN Q - 1
    ELSE IF x <= LnMinFloat THEN 0
    ELSE IF x <= -SigmoidClamp THEN 1
    ELSE LET e == Exp(-Abs(x))
             p == FDiv(e, Q + e)
         IN Max(1, Min(Q - 1, IF x >= 0 THEN Q - p ELSE p))

compute_pt_from_threshold(cohens_d, threshold, base_rate, sigma1, sigma2) ==
    LET l1 == LnNormalPdf(threshold, 0, sigma1)
        l2 == LnNormalPdf(threshold, cohens_d, sigma2)
        pdf1zero == l1 < LnMinFloat
        pdf2zero == l2 < LnMinFloat
    IN IF pdf1zero /\ pdf2zero THEN Q \div 2      \* denominator == 0
       ELSE IF pdf2zero THEN 0
       ELSE IF pdf1zero THEN Q
       ELSE Sigmoid(l2 + Ln(base_rate) - l1 - Ln(Q - base_rate))

\* 1e-8 is below the resolution 1/Q: an interval one unit wide stands for
\* the intervals narrower than it, which the floats halve further without
\* the midpoint leaving them
epsilon == 1
max_iter == 100

RECURSIVE Bisect(_, _, _, _, _, _, _, _)

\* the end of an iteration: "if right - left < epsilon: break", or go round
Narrowed(cohens_d, pt, base_rate, sigma1, sigma2, left, right, i) ==
    IF right - left <= epsilon
    THEN [threshold |-> DivRound(left + right, 2), evals |-> i, hit |-> FALSE]
    ELSE Bisect(cohens_d, pt, base_rate, sigma1, sigma2, left, right, i)

\* the body of an iteration once mid and pt_mid are known
Compared(cohens_d, pt, base_rate, sigma1, sigma2, left, right, i, mid, pt_mid) ==
    IF Abs(pt_mid - pt) < epsilon
    THEN [threshold |-> mid, evals |-> i + 1, hit |-> TRUE]
    ELSE Narrowed(cohens_d, pt, base_rate, sigma1, sigma2,
                  IF pt_mid < pt THEN mid ELSE left,
                  IF pt_mid < pt THEN right ELSE mid, i + 1)

\* the midpoint of an iteration and the posterior there
Halved(cohens_d, pt, base_rate, sigma1, sigma2, left, right, i, mid) ==
    Compared(cohens_d, pt, base_rate, sigma1, sigma2, left, right, i, mid,
             compute_pt_from_threshold(cohens_d, mid, base_rate, sigma1,
                                       sigma2))

\* the loop of compute_threshold_from_pt, from iteration i on
Bisect(cohens_d, pt, base_rate, sigma1, sigma2, left, right, i) ==
    IF i >= max_iter
    THEN [threshold |-> DivRound(left + right, 2), evals |-> i, hit |-> FALSE]
    ELSE Halved(cohens_d, pt, base_rate, sigma1, sigma2, left, right, i,
                DivRound(left + right, 2))

SearchLeft(sigma1, sigma2) == -8 * Max(sigma1, sigma2)
SearchRight(cohens_d, sigma1, sigma2) == 8 * Max(sigma1, sigma2) + cohens_d

compute_threshold_from_pt(cohens_d, pt, base_rate, sigma1, sigma2) ==
    Bisect(cohens_d, pt, base_rate, sigma1, sigma2,
           SearchLeft(sigma1, sigma2), SearchRight(cohens_d, sigma1, sigma2), 0)

----------------------------------------------------------------------------
(* Arithmetic shared by the two metric engines.  Products of two           *)
(* fixed-point reals are kept unrounded (in units of 1/Q^2) so that the     *)
(* "> 0" tests of the code are decided exactly.                             *)

\* a / b for a, b >= 0 in the same unit, as a fixed-point real
Ratio(a, b) == DivRound(a * Q, b)

\* x / y with float infinities: np.float64 division
InfDiv(x, y) ==
    IF x = PosInf THEN PosInf
    ELSE IF y = PosInf THEN 0
    ELSE FDiv(x, y)

\* max(a, b) where a may be -inf
MaxInf(a, b) == IF a = NegInf THEN b ELSE Max(a, b)

\* sqrt(a * b) for two fixed-point reals in [0, 1]
SqrtProd(a, b) == ISqrt(a * b)

\* sqrt(a * b * c * d) for four fixed-point reals in [0, 1]
Sqrt4(a, b, c, d) == FMul(SqrtProd(a, b), SqrtProd(c, d))

----------------------------------------------------------------------------
(* parametric.py: compute_binary_metrics                                    *)

\* lines 263-329, from the sensitivity and specificity at the threshold
\* and the posterior pt at the threshold
BinaryMetricsAt(sensitivity, specificity, base_rate, pt) ==
    LET tp2 == sensitivity * base_rate
        tn2 == specificity * (Q - base_rate)
        fp2 == (Q - specificity) * (Q - base_rate)
        fn2 == (Q - sensitivity) * base_rate
        ppv_denom == tp2 + fp2
        ppv == IF sensitivity = 0 THEN Q
               ELSE IF ppv_denom > 0 THEN Ratio(tp2, ppv_denom) ELSE Q
        npv_denom == tn2 + fn2
        npv == IF npv_denom > 0 THEN Ratio(tn2, npv_denom) ELSE Q
        accuracy == DivRound(tp2 + tn2, Q)
        balanced_accuracy == DivRound(sensitivity + specificity, 2)
        f1 == IF ppv + sensitivity > 0
              THEN DivRound(2 * ppv * sensitivity, ppv + sensitivity) ELSE 0
        mcc_num == DivRound(tp2, Q) * DivRound(tn2, Q)
                   - DivRound(fp2, Q) * DivRound(fn2, Q)
        mcc_pos == (tp2 + fp2 > 0) /\ (tp2 + fn2 > 0)
                   /\ (tn2 + fp2 > 0) /\ (tn2 + fn2 > 0)
        mcc_denom == Sqrt4(DivRound(tp2 + fp2, Q), DivRound(tp2 + fn2, Q),
                           DivRound(tn2 + fp2, Q), DivRound(tn2 + fn2, Q))
        mcc == IF mcc_pos /\ mcc_denom > 0
               THEN DivSigned(mcc_num, mcc_denom) ELSE 0
        lr_plus == IF specificity < Q
                   THEN FDiv(sensitivity, Q - specificity) ELSE PosInf
        lr_minus == IF specificity > 0
                    THEN FDiv(Q - sensitivity, specificity) ELSE PosInf
        dor == IF lr_minus > 0 /\ lr_minus # PosInf /\ lr_plus # PosInf
               THEN FDiv(lr_plus, lr_minus) ELSE PosInf
        youden_j == sensitivity + specificity - Q
        g_mean == SqrtProd(sensitivity, specificity)
        p_yes_pred2 == tp2 + fp2
        p_no_pred2 == Q * Q - p_yes_pred2
        pe2 == DivRound(base_rate * p_yes_pred2 + (Q - base_rate) * p_no_pred2, Q)
        po2 == tp2 + tn2
        kappa_stat == IF pe2 < Q * Q
                      THEN DivSigned((po2 - pe2) * Q, Q * Q - pe2) ELSE 0
        \* pre_test_odds * lr = (base_rate * a) / ((1 - base_rate) * b)
        post_test_prob_plus ==
            IF lr_plus = PosInf THEN Q
            ELSE IF tp2 + fp2 = 0 THEN 0 ELSE Ratio(tp2, tp2 + fp2)
        post_test_prob_minus ==
            IF lr_minus = PosInf THEN Q
            ELSE IF fn2 + tn2 = 0 THEN 0 ELSE Ratio(fn2, fn2 + tn2)
        odds_pt == IF pt < Q THEN FDiv(pt, Q - pt) ELSE PosInf
        nb_predictor == IF odds_pt # PosInf
                        THEN DivRound(tp2, Q) - FMul(DivRound(fp2, Q), odds_pt)
                        ELSE 0
        nb_treat_all == IF odds_pt # PosInf
                        THEN base_rate - FMul(Q - base_rate, odds_pt)
                        ELSE NegInf
        delta_nb == nb_predictor - MaxInf(nb_treat_all, 0)
    IN [sensitivity |-> sensitivity, specificity |-> specificity,
        ppv |-> ppv, npv |-> npv, accuracy |-> accuracy,
        balanced_accuracy |-> balanced_accuracy, f1 |-> f1, mcc |-> mcc,
        lr_plus |-> lr_plus, lr_minus |-> lr_minus, dor |-> dor,
        youden_j |-> youden_j, g_mean |-> g_mean, kappa |-> kappa_stat,
        post_test_prob_plus |-> post_test_prob_plus,
        post_test_prob_minus |-> post_test_prob_minus,
        delta_nb |-> delta_nb]

compute_binary_metrics(cohens_d, base_rate, threshold, sigma1, sigma2) ==
    LET fpr == Q - NormalCdf(threshold, 0, sigma1)
        tpr == Q - NormalCdf(threshold, cohens_d, sigma2)
        pt  == compute_pt_from_threshold(cohens_d, threshold, base_rate,
                                         sigma1, sigma2)
    IN BinaryMetricsAt(tpr, Q - fpr, base_rate, pt)

----------------------------------------------------------------------------
(* parametric.py: discrimination and effect-size conversions                *)

Sqrt2 == 1414
PiOverSqrt3 == 1814

compute_roc_auc_parametric(cohens_d, sigma1, sigma2) ==
    LET d_att == FDiv(FMul(cohens_d, Sqrt2),
                      FSqrt(FMul(sigma1, sigma1) + FMul(sigma2, sigma2)))
    IN StdNormalCdf(FDiv(d_att, Sqrt2))

d_to_odds_ratio(d) == Exp(FMul(d, PiOverSqrt3))
d_to_log_odds_ratio(d) == FMul(d, PiOverSqrt3)
d_to_cohens_u3(d) == StdNormalCdf(d)

d_to_point_biserial_r(d, base_rate) ==
    FDiv(d, FSqrt(FMul(d, d) + FDiv(Q, FMul(base_rate, Q - base_rate))))

r_to_d(r) ==
    IF Abs(r) >= Q THEN (IF r > 0 THEN PosInf ELSE NegInf)
    ELSE FDiv(2 * r, FSqrt(Q - FMul(r, r)))

odds_ratio_to_d(odds_ratio) ==
    IF ~IsNaN(odds_ratio) /\ odds_ratio <= 0
    THEN Raise("ValueError: odds_ratio must be > 0")
    ELSE IF IsNaN(odds_ratio) THEN Ok(NaN)
    ELSE Ok(FDiv(Ln(odds_ratio), PiOverSqrt3))

RECURSIVE PpfIter(_, _, _)
\* the least z in [lo, hi] with Phi(z) >= p
PpfIter(p, lo, hi) ==
    IF lo >= hi THEN lo
    ELSE LET mid == (lo + hi) \div 2
         IN PpfIter(p, IF StdNormalCdf(mid) >= p THEN lo ELSE mid + 1,
                    IF StdNormalCdf(mid) >= p THEN mid ELSE hi)

\* stats.norm.ppf(p) for 0 < p < 1: the inverse of the CDF table, odd in p - 1/2
NormalPpf(p) ==
    IF p >= Q \div 2 THEN PpfIter(p, 0, CdfSaturation - 1)
    ELSE -PpfIter(Q - p, 0, CdfSaturation - 1)

cohens_u3_to_d(u3) ==
    IF ~IsNaN(u3) /\ (u3 <= 0 \/ u3 >= Q)
    THEN Raise("ValueError: u3 must be between 0 and 1 (exclusive)")
    ELSE IF IsNaN(u3) THEN Ok(NaN)
    ELSE Ok(NormalPpf(u3))

\* a variant that inverts the CDF below 0.5 as well
auc_to_d_symmetric(auc) ==
    IF IsNaN(auc) THEN NaN
    ELSE IF auc <= 0 THEN NegInf
    ELSE IF auc >= Q THEN PosInf
    ELSE FMul(NormalPpf(auc), Sqrt2)

auc_to_d(auc) ==
    IF IsNaN(auc) THEN NaN
    ELSE IF auc <= Q \div 2 THEN 0
    ELSE IF auc >= Q THEN PosInf
    ELSE FMul(NormalPpf(auc), Sqrt2)

log_odds_ratio_to_d(log_odds_ratio) == FDiv(log_odds_ratio, PiOverSqrt3)

----------------------------------------------------------------------------
(* parametric.py: the two entry points                                      *)

NoResult == [none |-> TRUE, value |-> NaN]
Result(v) == [none |-> FALSE, value |-> v]

\* a call's outcome with the computation phases it ran
Outcome(r, phases) ==
    [raised |-> r.raised, error |-> r.error, value |-> r.value,
     steps |-> phases]

\* the default of compute_pr_auc_parametric's n_points
n_points == 500

\* np.linspace(start, stop, n)[i] for 0 <= i < n
Linspace(start, stop, n, i) == start + DivSigned(i * (stop - start), n - 1)

\* a variant that takes the recall from the controls and the false
\* positive rate from the cases
PrPoint_swapped(t, cohens_d, base_rate, sigma1, sigma2) ==
    LET recall == Q - NormalCdf(t, 0, sigma1)
        fpr == Q - NormalCdf(t, cohens_d, sigma2)
        numerator == base_rate * recall
        denominator == numerator + (Q - base_rate) * fpr
    IN [recall |-> recall,
        precision |-> IF denominator = 0 THEN Q
                      ELSE Ratio(numerator, denominator)]

\* recall and precision at threshold t; numerator and denominator are in
\* units of 1/Q^2, where a denominator below 1e-9 is 0
PrPoint(t, cohens_d, base_rate, sigma1, sigma2) ==
    LET recall == Q - NormalCdf(t, cohens_d, sigma2)
        fpr == Q - NormalCdf(t, 0, sigma1)
        numerator == base_rate * recall
        denominator == numerator + (Q - base_rate) * fpr
    IN [recall |-> recall,
        precision |-> IF denominator = 0 THEN Q
                      ELSE Ratio(numerator, denominator)]

\* the boundary points and the n points of the thresholds.  The thresholds
\* descend, so the recalls ascend and sorted(points, key=recall) keeps the
\* order; first marks the points that the removal of duplicates keeps
PrCurve(cohens_d, base_rate, sigma1, sigma2, n) ==
    LET min_thresh == Min(0, cohens_d) - 6 * Max(sigma1, sigma2)
        max_thresh == Max(0, cohens_d) + 6 * Max(sigma1, sigma2)
        points == <<[recall |-> 0, precision |-> Q]>>
                  \o [i \in 1..n |->
                         PrPoint(Linspace(max_thresh, min_thresh, n, i - 1),
                                 cohens_d, base_rate, sigma1, sigma2)]
                  \o <<[recall |-> Q, precision |-> base_rate]>>
    IN [i \in 1..(n + 2) |->
           [recall |-> points[i].recall, precision |-> points[i].precision,
            first |-> i = 1 \/ points[i].recall # points[i - 1].recall]]

IsFirstOfRecall(pt) == pt.first

\* twice the area under points[lo - 1 .. hi], in units of 1/Q^2
RECURSIVE Trapezoid(_, _, _)
Trapezoid(points, lo, hi) ==
    IF lo > hi THEN 0
    ELSE IF lo = hi
    THEN (points[lo].recall - points[lo - 1].recall)
         * (points[lo].precision + points[lo - 1].precision)
    ELSE Trapezoid(points, lo, (lo + hi) \div 2)
         + Trapezoid(points, (lo + hi) \div 2 + 1, hi)

compute_pr_auc_parametric(cohens_d, base_rate, sigma1, sigma2, n) ==
    IF ~IsNaN(base_rate) /\ base_rate <= 0 THEN 0
    ELSE IF ~IsNaN(base_rate) /\ base_rate >= Q THEN Q
    ELSE IF IsNaN(cohens_d) \/ IsNaN(base_rate) THEN NaN
    ELSE LET unique_points ==
                 SelectSeq(PrCurve(cohens_d, base_rate, sigma1, sigma2, n),
                           IsFirstOfRecall)
         IN Max(0, Min(Q, DivRound(Trapezoid(unique_points, 2,
                                             Len(unique_points)), 2 * Q)))

\* the record of a nan effect size.  Every comparison with nan is False:
\* the bisection keeps right = nan through all its iterations, and each
\* "x if <comparison> else <default>" of compute_binary_metrics takes its
\* default
NanRecord(d_true, d_observed, base_rate, threshold_prob, icc1, icc2, kappa, sigma1, sigma2) ==
    [cohens_d_true |-> d_true, cohens_d_observed |-> d_observed,
     base_rate |-> base_rate, threshold_prob |-> threshold_prob,
     icc1 |-> icc1, icc2 |-> icc2, kappa |-> kappa,
     d_eff |-> NaN, sigma1 |-> sigma1, sigma2 |-> sigma2,
     odds_ratio |-> NaN, log_odds_ratio |-> NaN, cohens_u3 |-> NaN,
     point_biserial_r |-> NaN, eta_squared |-> NaN,
     roc_auc |-> NaN,
     pr_auc |-> compute_pr_auc_parametric(NaN, base_rate, sigma1, sigma2,
                                          n_points),
     threshold_value |-> NaN, evals |-> max_iter,
     metrics |->
         [sensitivity |-> NaN, specificity |-> NaN, ppv |-> Q, npv |-> Q,
          accuracy |-> NaN, balanced_accuracy |-> NaN, f1 |-> 0, mcc |-> 0,
          lr_plus |-> PosInf, lr_minus |-> PosInf, dor |-> PosInf,
          youden_j |-> NaN, g_mean |-> NaN, kappa |-> 0,
          post_test_prob_plus |-> Q, post_test_prob_minus |-> Q,
          delta_nb |-> 0]]

\* lines 701-751 / 822-876: everything after validation and the choice of
\* d_eff, sigma1, sigma2
ParametricRecord(d_true, d_observed, d_eff, base_rate, threshold_prob, icc1, icc2, kappa, sigma1, sigma2) ==
    IF IsNaN(d_eff)
    THEN NanRecord(d_true, d_observed, base_rate, threshold_prob, icc1, icc2,
                   kappa, sigma1, sigma2)
    ELSE
    LET search  == compute_threshold_from_pt(d_eff, threshold_prob, base_rate,
                                             sigma1, sigma2)
        metrics == compute_binary_metrics(d_eff, base_rate, search.threshold,
                                          sigma1, sigma2)
        pb_r    == d_to_point_biserial_r(d_eff, base_rate)
    IN [cohens_d_true |-> d_true, cohens_d_observed |-> d_observed,
        base_rate |-> base_rate, threshold_prob |-> threshold_prob,
        icc1 |-> icc1, icc2 |-> icc2, kappa |-> kappa,
        d_eff |-> d_eff, sigma1 |-> sigma1, sigma2 |-> sigma2,
        odds_ratio |-> d_to_odds_ratio(d_eff),
        log_odds_ratio |-> d_to_log_odds_ratio(d_eff),
        cohens_u3 |-> d_to_cohens_u3(d_eff),
        point_biserial_r |-> pb_r, eta_squared |-> FMul(pb_r, pb_r),
        roc_auc |-> compute_roc_auc_parametric(d_eff, sigma1, sigma2),
        pr_auc |-> compute_pr_auc_parametric(d_eff, base_rate, sigma1, sigma2,
                                             n_points),
        threshold_value |-> search.threshold, evals |-> search.evals,
        metrics |-> metrics]

ComputePhases ==
    <<"validate", "attenuate", "sigma", "compute_threshold_from_pt",
      "compute_binary_metrics", "discrimination", "conversions">>

\* a variant that inflates the standard deviations under either view
e2p_parametric_binary_view_blind(cohens_d, base_rate, threshold_prob, icc1, icc2, kappa, view) ==
    IF ~InOpenUnit(base_rate)
    THEN Outcome(Raise("ValueError: base_rate must be between 0 and 1 (exclusive)"),
                 <<"validate">>)
    ELSE IF ~InOpenUnit(threshold_prob)
    THEN Outcome(Raise("ValueError: threshold_prob must be between 0 and 1 (exclusive)"),
                 <<"validate">>)
    ELSE IF ~InHalfOpenUnit(icc1)
    THEN Outcome(Raise("ValueError: icc1 must be in (0, 1]"), <<"validate">>)
    ELSE IF ~InHalfOpenUnit(icc2)
    THEN Outcome(Raise("ValueError: icc2 must be in (0, 1]"), <<"validate">>)
    ELSE IF ~InHalfOpenUnit(kappa)
    THEN Outcome(Raise("ValueError: kappa must be in (0, 1]"), <<"validate">>)
    ELSE LET d_observed == attenuate_d(cohens_d, kappa)
             sigma1 == compute_sigma_from_icc(icc1).value
             sigma2 == compute_sigma_from_icc(icc2).value
             d_eff  == IF view = "true" THEN cohens_d ELSE d_observed
         IN Outcome(Ok(ParametricRecord(cohens_d, d_observed, d_eff, base_rate,
                                        threshold_prob, icc1, icc2, kappa,
                                        sigma1, sigma2)),
                    ComputePhases)

e2p_parametric_binary(cohens_d, base_rate, threshold_prob, icc1, icc2, kappa, view) ==
    IF ~InOpenUnit(base_rate)
    THEN Outcome(Raise("ValueError: base_rate must be between 0 and 1 (exclusive)"),
                 <<"validate">>)
    ELSE IF ~InOpenUnit(threshold_prob)
    THEN Outcome(Raise("ValueError: threshold_prob must be between 0 and 1 (exclusive)"),
                 <<"validate">>)
    ELSE IF ~InHalfOpenUnit(icc1)
    THEN Outcome(Raise("ValueError: icc1 must be in (0, 1]"), <<"validate">>)
    ELSE IF ~InHalfOpenUnit(icc2)
    THEN Outcome(Raise("ValueError: icc2 must be in (0, 1]"), <<"validate">>)
    ELSE IF ~InHalfOpenUnit(kappa)
    THEN Outcome(Raise("ValueError: kappa must be in (0, 1]"), <<"validate">>)
    ELSE LET d_observed == attenuate_d(cohens_d, kappa)
             sigma1 == IF view = "true" THEN Q
                       ELSE compute_sigma_from_icc(icc1).value
             sigma2 == IF view = "true" THEN Q
                       ELSE compute_sigma_from_icc(icc2).value
             d_eff  == IF view = "true" THEN cohens_d ELSE d_observed
         IN Outcome(Ok(ParametricRecord(cohens_d, d_observed, d_eff, base_rate,
                                        threshold_prob, icc1, icc2, kappa,
                                        sigma1, sigma2)),
                    ComputePhases)

e2p_parametric_continuous(pearson_r, base_rate, threshold_prob, reliability_x, reliability_y, view) ==
    IF ~(~IsNaN(pearson_r) /\ -Q < pearson_r /\ pearson_r < Q)
    THEN Outcome(Raise("ValueError: pearson_r must be between -1 and 1 (exclusive)"),
                 <<"validate">>)
    ELSE IF ~InOpenUnit(base_rate)
    THEN Outcome(Raise("ValueError: base_rate must be between 0 and 1 (exclusive)"),
                 <<"validate">>)
    ELSE IF ~InOpenUnit(threshold_prob)
    THEN Outcome(Raise("ValueError: threshold_prob must be between 0 and 1 (exclusive)"),
                 <<"validate">>)
    ELSE IF ~InHalfOpenUnit(reliability_x)
    THEN Outcome(Raise("ValueError: reliability_x must be in (0, 1]"),
                 <<"validate">>)
    ELSE IF ~InHalfOpenUnit(reliability_y)
    THEN Outcome(Raise("ValueError: reliability_y must be in (0, 1]"),
                 <<"validate">>)
    ELSE LET r_observed == FMul(pearson_r,
                                FSqrt(FMul(reliability_x, reliability_y)))
             r_eff == IF view = "true" THEN pearson_r ELSE r_observed
             d_eff == r_to_d(r_eff)
         IN Outcome(Ok(ParametricRecord(r_to_d(pearson_r), r_to_d(r_observed),
                                        d_eff, base_rate, threshold_prob,
                                        reliability_x, reliability_y, Q, Q, Q)),
                    ComputePhases)

----------------------------------------------------------------------------
(* mcp_server.py: the attenuation tool                                      *)

apply_reliability_attenuation(true_d, kappa, icc) ==
    LET observed_d == attenuate_d(true_d, kappa)
        sigma == IF icc < Q THEN compute_sigma_from_icc(icc) ELSE Ok(Q)
    IN IF sigma.raised THEN Raise(sigma.error)
       ELSE Ok([true_d |-> true_d, observed_d |-> observed_d, kappa |-> kappa,
                icc |-> icc, sigma_inflation |-> sigma.value])

----------------------------------------------------------------------------
(* State shared by the specifications: the call in progress (op, args),    *)
(* its outcome (err, ret), the computation phases it reached (steps), and  *)
(* the objects and the global numpy generator of the empirical engine.     *)

NoObject == [exists |-> FALSE]
NoReference == [set |-> FALSE]

Idle ==
    /\ op = "none"
    /\ args = <<>>
    /\ err = "none"
    /\ ret = NoResult
    /\ steps = <<>>

\* one call of a function: its arguments in, its outcome out
Call(name, a, outcome) ==
    /\ op = "none"
    /\ op' = name
    /\ args' = a
    /\ err' = outcome.error
    /\ ret' = IF outcome.raised THEN NoResult ELSE Result(outcome.value)
    /\ steps' = outcome.steps

\* a function without phases of its own: it validates, then computes
Phased(r) ==
    Outcome(r, IF r.raised THEN <<"validate">> ELSE <<"validate", "compute">>)

----------------------------------------------------------------------------
(* SpecParametric: one call of a function of parametric.py or of the       *)
(* attenuation tool, on inputs inside and outside the documented domains.  *)

EffectSizes == {-800, 0, 100, 800}
Probabilities == {-100, 0, 100, 500, 1000, 1200}
Reliabilities == {-250, 0, 250, 1000, 1250}
Kappas == {-500, 0, 500, 1000, 1500}
Correlations == {-1000, -500, 0, 300, 1000}
Views == {"true", "observed"}
U3s == {-100, 0, 1, 500, 788, 999, 1000, 1100}
OddsRatios == {-2000, 0, 500, 1000, 4270}

InitParametric ==
    /\ Idle
    /\ rng = 0
    /\ bin = NoObject
    /\ cont = NoObject
    /\ kde = 0
    /\ hist = NoReference

ParametricBinary ==
    /\ op = "none"
    /\ \E cohens_d \in EffectSizes \cup {NaN}, base_rate \in Probabilities,
          threshold_prob \in Probabilities, icc1 \in Reliabilities,
          icc2 \in Reliabilities, kappa \in Kappas, view \in Views :
        \E outcome \in {e2p_parametric_binary(cohens_d, base_rate,
                             threshold_prob, icc1, icc2, kappa, view)} :
            /\ Call("e2p_parametric_binary",
                    [cohens_d |-> cohens_d, base_rate |-> base_rate,
                     threshold_prob |-> threshold_prob, icc1 |-> icc1,
                     icc2 |-> icc2, kappa |-> kappa, view |-> view],
                    outcome)
            /\ UNCHANGED <<rng, bin, cont, kde, hist>>

ParametricContinuous ==
    /\ op = "none"
    /\ \E pearson_r \in Correlations, base_rate \in Probabilities,
          threshold_prob \in Probabilities, reliability_x \in Reliabilities,
          reliability_y \in Reliabilities, view \in Views :
        \E outcome \in {e2p_parametric_continuous(pearson_r, base_rate,
                             threshold_prob, reliability_x, reliability_y,
                             view)} :
            /\ Call("e2p_parametric_continuous",
                    [pearson_r |-> pearson_r, base_rate |-> base_rate,
                     threshold_prob |-> threshold_prob,
                     reliability_x |-> reliability_x,
                     reliability_y |-> reliability_y, view |-> view],
                    outcome)
            /\ UNCHANGED <<rng, bin, cont, kde, hist>>

AttenuateD ==
    /\ op = "none"
    /\ \E true_d \in EffectSizes, kappa \in Kappas :
        /\ Call("attenuate_d", [true_d |-> true_d, kappa |-> kappa],
                Outcome(Ok(attenuate_d(true_d, kappa)), <<"compute">>))
        /\ UNCHANGED <<rng, bin, cont, kde, hist>>

ComputeSigmaFromIcc ==
    /\ op = "none"
    /\ \E icc \in Reliabilities :
        /\ Call("compute_sigma_from_icc", [icc |-> icc],
                Phased(compute_sigma_from_icc(icc)))
        /\ UNCHANGED <<rng, bin, cont, kde, hist>>

CohensU3ToD ==
    \E u3 \in U3s :
        /\ Call("cohens_u3_to_d", [u3 |-> u3], Phased(cohens_u3_to_d(u3)))
        /\ UNCHANGED <<rng, bin, cont, kde, hist>>

OddsRatioToD ==
    /\ op = "none"
    /\ \E odds_ratio \in OddsRatios :
        /\ Call("odds_ratio_to_d", [odds_ratio |-> odds_ratio],
                Phased(odds_ratio_to_d(odds_ratio)))
        /\ UNCHANGED <<rng, bin, cont, kde, hist>>

ApplyReliabilityAttenuation ==
    /\ op = "none"
    /\ \E true_d \in EffectSizes, kappa \in Kappas, icc \in Reliabilities :
        /\ Call("apply_reliability_attenuation",
                [true_d |-> true_d, kappa |-> kappa, icc |-> icc],
                LET r == apply_reliability_attenuation(true_d, kappa, icc)
                IN Outcome(r, IF r.raised THEN <<"compute", "validate">>
                              ELSE <<"compute">>))
        /\ UNCHANGED <<rng, bin, cont, kde, hist>>

NextParametric ==
    \/ ParametricBinary
    \/ ParametricContinuous
    \/ AttenuateD
    \/ ComputeSigmaFromIcc
    \/ CohensU3ToD
    \/ OddsRatioToD
    \/ ApplyReliabilityAttenuation

SpecParametric == InitParametric /\ [][NextParametric]_vars

----------------------------------------------------------------------------
(* Properties of the parametric engine                                      *)

OutOfOpenUnit(x) == x <= 0 \/ x >= Q
OutOfHalfOpenUnit(x) == x <= 0 \/ x > Q
Raised == err # "none" /\ ret.none
RaisedInValidation == Raised /\ steps = <<"validate">>

\* C1: a parameter outside its domain makes the parametric functions raise
\* and return nothing: e2p_parametric_binary, in either view, for base_rate
\* or threshold_prob outside (0, 1) and for icc1, icc2 or kappa outside
\* (0, 1], before the threshold search and the metrics; cohens_u3_to_d for
\* u3 <= 0 or u3 >= 1; odds_ratio_to_d for an odds ratio <= 0;
\* compute_sigma_from_icc for icc <= 0 or icc > 1.
C1_InvalidDomainRaises ==
    /\ (/\ op = "e2p_parametric_binary"
        /\ \/ OutOfOpenUnit(args.base_rate)
           \/ OutOfOpenUnit(args.threshold_prob)
           \/ OutOfHalfOpenUnit(args.icc1)
           \/ OutOfHalfOpenUnit(args.icc2)
           \/ OutOfHalfOpenUnit(args.kappa))
       => RaisedInValidation
    /\ (op = "cohens_u3_to_d" /\ OutOfOpenUnit(args.u3)) => Raised
    /\ (op = "odds_ratio_to_d" /\ args.odds_ratio <= 0) => Raised
    /\ (op = "compute_sigma_from_icc" /\ OutOfHalfOpenUnit(args.icc)) => Raised

\* C1's case: the last-validated parameter alone is out of range, in the view
\* that never uses it, and the call stopped in validation
C1_KappaRejectedInTrueView ==
    /\ op = "e2p_parametric_binary"
    /\ args.view = "true"
    /\ ~OutOfOpenUnit(args.base_rate)
    /\ ~OutOfOpenUnit(args.threshold_prob)
    /\ ~OutOfHalfOpenUnit(args.icc1)
    /\ ~OutOfHalfOpenUnit(args.icc2)
    /\ args.kappa > Q
    /\ err = "ValueError: kappa must be in (0, 1]"
    /\ steps = <<"validate">>

\* C4: a reliability outside (0, 1] is never clamped or defaulted:
\* attenuate_d, compute_sigma_from_icc, e2p_parametric_binary and
\* apply_reliability_attenuation all raise for icc or kappa out of range.
C4_ReliabilityNeverClamped ==
    /\ (op = "attenuate_d" /\ OutOfHalfOpenUnit(args.kappa)) => Raised
    /\ (op = "compute_sigma_from_icc" /\ OutOfHalfOpenUnit(args.icc)) => Raised
    /\ (/\ op = "e2p_parametric_binary"
        /\ \/ OutOfHalfOpenUnit(args.icc1)
           \/ OutOfHalfOpenUnit(args.icc2)
           \/ OutOfHalfOpenUnit(args.kappa))
       => Raised
    /\ (/\ op = "apply_reliability_attenuation"
        /\ OutOfHalfOpenUnit(args.icc) \/ OutOfHalfOpenUnit(args.kappa))
       => Raised

ScanStep == 250
ScanHalfWidth == 120
ScanGrid == {ScanStep * k : k \in (-ScanHalfWidth)..ScanHalfWidth}

\* the posterior of a returned record's model at threshold t
PosteriorAt(v, t) ==
    compute_pt_from_threshold(v.d_eff, t, v.base_rate, v.sigma1, v.sigma2)

\* the posterior meets threshold_prob at t, or passes it before t + ScanStep
RootIn(v, t) ==
    LET a == PosteriorAt(v, t) - v.threshold_prob
        b == PosteriorAt(v, t + ScanStep) - v.threshold_prob
    IN a = 0 \/ (a < 0 /\ b > 0) \/ (a > 0 /\ b < 0)

\* C7: for every accepted input of e2p_parametric_binary and
\* e2p_parametric_continuous, any real effect size included, exactly one
\* threshold has posterior equal to threshold_prob, and the returned
\* threshold_value is that threshold, to the search's tolerance.
C7_ThresholdIsTheUniqueRoot ==
    (/\ op \in {"e2p_parametric_binary", "e2p_parametric_continuous"}
     /\ ~ret.none
     /\ ~IsNaN(ret.value.d_eff))
    => /\ Cardinality({t \in ScanGrid : RootIn(ret.value, t)}) = 1
       /\ Abs(PosteriorAt(ret.value, ret.value.threshold_value)
              - ret.value.threshold_prob) <= epsilon

----------------------------------------------------------------------------
(* utils.py: compute_threshold_metrics, the empirical metric engine.        *)
(* A sample is a sequence of fixed-point reals.                             *)

\* the number of elements of sample g at or above, and below, the threshold
\* (a comparison with nan is False)
CountGeq(g, threshold) ==
    Cardinality({i \in 1..Len(g) :
                    ~IsNaN(g[i]) /\ ~IsNaN(threshold) /\ g[i] >= threshold})
CountLt(g, threshold) ==
    Cardinality({i \in 1..Len(g) :
                    ~IsNaN(g[i]) /\ ~IsNaN(threshold) /\ g[i] < threshold})

\* np.mean of a boolean array with count True entries out of n (nan if empty)
MeanOfMask(count, n) == IF n = 0 THEN NaN ELSE DivRound(count * Q, n)

\* lines 344-420, from the sample proportions sens and spec
ThresholdMetricsAt(sens, spec, base_rate, pt) ==
    LET tp2 == sens * base_rate
        tn2 == spec * (Q - base_rate)
        fp2 == (Q - spec) * (Q - base_rate)
        fn2 == (Q - sens) * base_rate
        ppv_denom == tp2 + fp2
        ppv == IF ppv_denom > 0 THEN Ratio(tp2, ppv_denom) ELSE Q
        npv_denom == tn2 + fn2
        npv == IF npv_denom > 0 THEN Ratio(tn2, npv_denom) ELSE Q
        accuracy == DivRound(tp2 + tn2, Q)
        balanced_accuracy == DivRound(sens + spec, 2)
        f1 == IF ppv + sens > 0
              THEN DivRound(2 * ppv * sens, ppv + sens) ELSE 0
        mcc_num == DivRound(tp2, Q) * DivRound(tn2, Q)
                   - DivRound(fp2, Q) * DivRound(fn2, Q)
        mcc_pos == (tp2 + fp2 > 0) /\ (tp2 + fn2 > 0)
                   /\ (tn2 + fp2 > 0) /\ (tn2 + fn2 > 0)
        mcc_denom == Sqrt4(DivRound(tp2 + fp2, Q), DivRound(tp2 + fn2, Q),
                           DivRound(tn2 + fp2, Q), DivRound(tn2 + fn2, Q))
        mcc == IF mcc_pos /\ mcc_denom > 0
               THEN DivSigned(mcc_num, mcc_denom) ELSE 0
        lr_plus == IF spec < Q THEN FDiv(sens, Q - spec) ELSE PosInf
        lr_minus == IF spec > 0 THEN FDiv(Q - sens, spec) ELSE PosInf
        dor == IF lr_minus > 0 /\ lr_minus # PosInf
               THEN InfDiv(lr_plus, lr_minus) ELSE PosInf
        youden_j == sens + spec - Q
        g_mean == SqrtProd(sens, spec)
        pe2 == DivRound(base_rate * (tp2 + fp2)
                        + (Q - base_rate) * (tn2 + fn2), Q)
        po2 == tp2 + tn2
        kappa == IF pe2 < Q * Q
                 THEN DivSigned((po2 - pe2) * Q, Q * Q - pe2) ELSE 0
        post_prob_plus ==
            IF lr_plus = PosInf THEN Q
            ELSE IF tp2 + fp2 = 0 THEN 0 ELSE Ratio(tp2, tp2 + fp2)
        post_prob_minus ==
            IF lr_minus = PosInf THEN Q
            ELSE IF fn2 + tn2 = 0 THEN 0 ELSE Ratio(fn2, fn2 + tn2)
        odds == FDiv(pt, Q - pt)
        nb_predictor == DivRound(tp2, Q) - FMul(DivRound(fp2, Q), odds)
        nb_treat_all == base_rate - FMul(Q - base_rate, odds)
        delta_nb == nb_predictor - Max(nb_treat_all, 0)
    IN IF pt = Q THEN Raise("ZeroDivisionError: float division by zero")
       ELSE Ok([sensitivity |-> sens, specificity |-> spec,
                ppv |-> ppv, npv |-> npv, accuracy |-> accuracy,
                balanced_accuracy |-> balanced_accuracy, f1 |-> f1,
                mcc |-> mcc, lr_plus |-> lr_plus, lr_minus |-> lr_minus,
                dor |-> dor, youden_j |-> youden_j, g_mean |-> g_mean,
                kappa |-> kappa, post_test_prob_plus |-> post_prob_plus,
                post_test_prob_minus |-> post_prob_minus,
                delta_nb |-> delta_nb])

\* both groups hold at least one finite observation here
compute_threshold_metrics(g1, g2, threshold, base_rate, pt) ==
    ThresholdMetricsAt(MeanOfMask(CountGeq(g2, threshold), Len(g2)),
                       MeanOfMask(CountLt(g1, threshold), Len(g1)),
                       base_rate, pt)

----------------------------------------------------------------------------
(* SpecMetrics: one call of either metric engine, or of both on the same   *)
(* sensitivity, specificity, base rate and threshold probability.           *)

MetricEffectSizes == {-10000, -5000, -800, 0, 800, 5000}
MetricThresholds == {-9000, -4000, 0, 500, 4000, 9000}
MetricSigmas == {1000, 2000}
MetricBaseRates == {100, 500, 900}
MetricProbabilities == {100, 500, 900}
MetricSamples ==
    {<<0>>, <<0, 5000>>, <<1000, 2000>>, <<0, 1000, 5000>>, <<3000, 3000>>}
SampleThresholds == {-1000, 0, 1000, 3000, 6000}

InitMetrics ==
    /\ Idle
    /\ rng = 0
    /\ bin = NoObject
    /\ cont = NoObject
    /\ kde = 0
    /\ hist = NoReference

AnalyticMetrics ==
    /\ op = "none"
    /\ \E cohens_d \in MetricEffectSizes, base_rate \in MetricBaseRates,
          threshold \in MetricThresholds, sigma1 \in MetricSigmas,
          sigma2 \in MetricSigmas :
        /\ Call("compute_binary_metrics",
                [cohens_d |-> cohens_d, base_rate |-> base_rate,
                 threshold |-> threshold, sigma1 |-> sigma1,
                 sigma2 |-> sigma2],
                Outcome(Ok(compute_binary_metrics(cohens_d, base_rate,
                                                  threshold, sigma1, sigma2)),
                        <<"compute">>))
        /\ UNCHANGED <<rng, bin, cont, kde, hist>>

EmpiricalMetrics ==
    /\ op = "none"
    /\ \E g1 \in MetricSamples, g2 \in MetricSamples,
          threshold \in SampleThresholds, base_rate \in MetricBaseRates,
          pt \in MetricProbabilities :
        /\ Call("compute_threshold_metrics",
                [g1 |-> g1, g2 |-> g2, threshold |-> threshold,
                 base_rate |-> base_rate, pt |-> pt],
                Outcome(compute_threshold_metrics(g1, g2, threshold,
                                                  base_rate, pt),
                        <<"compute">>))
        /\ UNCHANGED <<rng, bin, cont, kde, hist>>

\* the analytic engine at a threshold, and the empirical engine on samples
\* with the sensitivity, specificity and pt that the threshold produces
CompareEngines ==
    /\ op = "none"
    /\ \E cohens_d \in MetricEffectSizes, base_rate \in MetricBaseRates,
          threshold \in MetricThresholds, sigma1 \in MetricSigmas,
          sigma2 \in MetricSigmas :
        LET analytic == compute_binary_metrics(cohens_d, base_rate, threshold,
                                               sigma1, sigma2)
            pt == compute_pt_from_threshold(cohens_d, threshold, base_rate,
                                            sigma1, sigma2)
            empirical == ThresholdMetricsAt(analytic.sensitivity,
                                            analytic.specificity,
                                            base_rate, pt)
        IN /\ Call("compare_engines",
                   [cohens_d |-> cohens_d, base_rate |-> base_rate,
                    threshold |-> threshold, sigma1 |-> sigma1,
                    sigma2 |-> sigma2, pt |-> pt],
                   Outcome(Ok([analytic |-> analytic, empirical |-> empirical]),
                           <<"compute">>))
           /\ UNCHANGED <<rng, bin, cont, kde, hist>>

NextMetrics ==
    \/ AnalyticMetrics
    \/ EmpiricalMetrics
    \/ CompareEngines

SpecMetrics == InitMetrics /\ [][NextMetrics]_vars

----------------------------------------------------------------------------
(* Properties of the metric engines                                         *)

SharedMetrics ==
    {"ppv", "npv", "accuracy", "balanced_accuracy", "f1", "mcc", "lr_plus",
     "lr_minus", "dor", "youden_j", "g_mean", "kappa", "post_test_prob_plus",
     "post_test_prob_minus", "delta_nb"}

\* C8: the analytic and the empirical metric engines agree: for the same
\* sensitivity, specificity, base_rate in (0, 1) and pt in (0, 1) they
\* return the same value for every shared metric.
C8_EnginesAgree ==
    (/\ op = "compare_engines"
     /\ 0 < args.pt /\ args.pt < Q)
    => /\ ~ret.value.empirical.raised
       /\ \A k \in SharedMetrics :
            ret.value.analytic[k] = ret.value.empirical.value[k]

PpvDenominator(m, base_rate) ==
    m.sensitivity * base_rate + (Q - m.specificity) * (Q - base_rate)
NpvDenominator(m, base_rate) ==
    m.specificity * (Q - base_rate) + (Q - m.sensitivity) * base_rate

\* C9: in both engines PPV is sens*base_rate over its denominator, except
\* that PPV = 1 when sensitivity = 0 or the denominator is <= 0; NPV is
\* spec*(1-base_rate) over its denominator, except that NPV = 1 when the
\* denominator is <= 0; neither engine raises or returns NaN for them.
C9_PredictiveValueConvention ==
    (op \in {"compute_binary_metrics", "compute_threshold_metrics"})
    => /\ ~ret.none
       /\ LET m == ret.value
              pd == PpvDenominator(m, args.base_rate)
              nd == NpvDenominator(m, args.base_rate)
          IN /\ ~IsNaN(m.ppv) /\ ~IsNaN(m.npv)
             /\ m.ppv = IF m.sensitivity = 0 \/ pd <= 0 THEN Q
                        ELSE Ratio(m.sensitivity * args.base_rate, pd)
             /\ m.npv = IF nd <= 0 THEN Q
                        ELSE Ratio(m.specificity * (Q - args.base_rate), nd)

----------------------------------------------------------------------------
(* numpy on samples: sequences of fixed-point reals that may hold nan and  *)
(* inf.  Statistics are computed on samples without inf.                    *)

\* an optional argument left at None
None == -2100000000

AllFinite(g) == \A i \in 1..Len(g) : IsFinite(g[i])
HasNaN(g) == \E i \in 1..Len(g) : IsNaN(g[i])
IsConstant(g) == \A i \in 1..Len(g) : g[i] = g[1]

RECURSIVE SumSeq(_)
SumSeq(g) == IF g = <<>> THEN 0 ELSE Head(g) + SumSeq(Tail(g))

\* np.mean
Mean(g) ==
    IF Len(g) = 0 \/ ~AllFinite(g) THEN NaN ELSE DivSigned(SumSeq(g), Len(g))

\* np.var(g, ddof): nan when there are no degrees of freedom
Variance(g, ddof) ==
    IF ~AllFinite(g) \/ Len(g) - ddof <= 0 THEN NaN
    ELSE LET c == Mean(g)
         IN DivRound(SumSeq([i \in 1..Len(g) |-> FMul(g[i] - c, g[i] - c)]),
                     Len(g) - ddof)

\* np.std
Std(g) == FSqrt(Variance(g, 0))

RECURSIVE Insert(_, _)
Insert(x, sorted) ==
    IF sorted = <<>> THEN <<x>>
    ELSE IF x <= Head(sorted) THEN <<x>> \o sorted
    ELSE <<Head(sorted)>> \o Insert(x, Tail(sorted))

RECURSIVE Sort(_)
Sort(g) == IF g = <<>> THEN <<>> ELSE Insert(Head(g), Sort(Tail(g)))

\* np.percentile(g, 100 * q / Q) for 0 <= q <= Q, linear interpolation
\* between order statistics; nan if the sample holds a nan
Percentile(g, q) ==
    IF HasNaN(g) THEN NaN
    ELSE LET sorted == Sort(g)
             n    == Len(g)
             pos  == q * (n - 1)
             lo   == pos \div Q
             frac == pos % Q
             hi   == Min(lo + 1, n - 1)
         IN sorted[lo + 1]
            + DivSigned(frac * (sorted[hi + 1] - sorted[lo + 1]), Q)

\* np.median
Median(g) == Percentile(g, Q \div 2)

\* x[mask] and x[~mask]
RECURSIVE SelectMask(_, _, _)
SelectMask(x, mask, keep) ==
    IF x = <<>> THEN <<>>
    ELSE (IF Head(mask) = keep THEN <<Head(x)>> ELSE <<>>)
         \o SelectMask(Tail(x), Tail(mask), keep)

----------------------------------------------------------------------------
(* The process-wide generator of np.random, as a small congruential         *)
(* generator: np.random.seed fixes its state, every draw advances it.       *)

RngModulus == 4
RngMultiplier == 5
RngIncrement == 3

NextRandom(state) == (RngMultiplier * state + RngIncrement) % RngModulus

\* a variant that never seeds the generator
seed_skipped(random_state, state) == state

\* the constructors' "if random_state is not None: np.random.seed(...)"
seed(random_state, state) ==
    IF random_state = None THEN state ELSE random_state % RngModulus

RECURSIVE ChoiceIter(_, _, _, _)
ChoiceIter(g, k, state, acc) ==
    IF k = 0 THEN [sample |-> acc, state |-> state]
    ELSE LET s == NextRandom(state)
         IN ChoiceIter(g, k - 1, s,
                       Append(acc, g[1 + (s * Len(g)) \div RngModulus]))

\* np.random.choice(g, size=size, replace=True) from generator state
choice(g, size, state) == ChoiceIter(g, size, state, <<>>)

----------------------------------------------------------------------------
(* utils.py: reliability transformations                                    *)

\* a variant that exchanges the two reliabilities in the scale
transform_for_target_reliability_inverted(x, r_current, r_target, center) ==
    IF ~AllFinite(x)
    THEN Raise("ValueError: x must contain only finite values")
    ELSE IF ~InHalfOpenUnit(r_current)
    THEN Raise("ValueError: r_current must be in (0, 1]")
    ELSE IF ~InHalfOpenUnit(r_target)
    THEN Raise("ValueError: r_target must be in (0, 1]")
    ELSE IF center \notin {"mean", "median"}
    THEN Raise("ValueError: center must be 'mean' or 'median'")
    ELSE LET c == IF center = "mean" THEN Mean(x) ELSE Median(x)
             scale == FSqrt(FDiv(r_target, r_current))
         IN Ok([i \in 1..Len(x) |-> c + FMul(scale, x[i] - c)])

\* a variant that scales by the ratio of the reliabilities, not its root
transform_for_target_reliability_ratio(x, r_current, r_target, center) ==
    IF ~AllFinite(x)
    THEN Raise("ValueError: x must contain only finite values")
    ELSE IF ~InHalfOpenUnit(r_current)
    THEN Raise("ValueError: r_current must be in (0, 1]")
    ELSE IF ~InHalfOpenUnit(r_target)
    THEN Raise("ValueError: r_target must be in (0, 1]")
    ELSE IF center \notin {"mean", "median"}
    THEN Raise("ValueError: center must be 'mean' or 'median'")
    ELSE LET c == IF center = "mean" THEN Mean(x) ELSE Median(x)
             scale == FDiv(r_current, r_target)
         IN Ok([i \in 1..Len(x) |-> c + FMul(scale, x[i] - c)])

transform_for_target_reliability(x, r_current, r_target, center) ==
    IF ~AllFinite(x)
    THEN Raise("ValueError: x must contain only finite values")
    ELSE IF ~InHalfOpenUnit(r_current)
    THEN Raise("ValueError: r_current must be in (0, 1]")
    ELSE IF ~InHalfOpenUnit(r_target)
    THEN Raise("ValueError: r_target must be in (0, 1]")
    ELSE IF center \notin {"mean", "median"}
    THEN Raise("ValueError: center must be 'mean' or 'median'")
    ELSE LET c == IF center = "mean" THEN Mean(x) ELSE Median(x)
             scale == FSqrt(FDiv(r_current, r_target))
         IN Ok([i \in 1..Len(x) |-> c + FMul(scale, x[i] - c)])

\* a variant that moves group2 alone by the whole change of the difference
transform_groups_for_target_kappa_one_sided(group1, group2, kappa_current, kappa_target) ==
    IF ~AllFinite(group1) \/ ~AllFinite(group2)
    THEN Raise("ValueError: group1 and group2 must contain only finite values")
    ELSE IF ~InHalfOpenUnit(kappa_current)
    THEN Raise("ValueError: kappa_current must be in (0, 1]")
    ELSE IF ~InHalfOpenUnit(kappa_target)
    THEN Raise("ValueError: kappa_target must be in (0, 1]")
    ELSE LET s_cur == Sin(FMul(HalfPi, kappa_current))
             s_tgt == Sin(FMul(HalfPi, kappa_target))
             scale == FSqrt(FDiv(s_tgt, s_cur))
             delta == Mean(group2) - Mean(group1)
             shift == FMul(delta, scale) - delta
         IN IF s_cur <= 0
            THEN Raise("ValueError: sin(pi/2 * kappa_current) must be > 0")
            ELSE IF scale = Q THEN Ok([group1 |-> group1, group2 |-> group2])
            ELSE Ok([group1 |-> group1,
                     group2 |-> [i \in 1..Len(group2) |-> group2[i] + shift]])

transform_groups_for_target_kappa(group1, group2, kappa_current, kappa_target) ==
    IF ~AllFinite(group1) \/ ~AllFinite(group2)
    THEN Raise("ValueError: group1 and group2 must contain only finite values")
    ELSE IF ~InHalfOpenUnit(kappa_current)
    THEN Raise("ValueError: kappa_current must be in (0, 1]")
    ELSE IF ~InHalfOpenUnit(kappa_target)
    THEN Raise("ValueError: kappa_target must be in (0, 1]")
    ELSE LET s_cur == Sin(FMul(HalfPi, kappa_current))
             s_tgt == Sin(FMul(HalfPi, kappa_target))
             scale == FSqrt(FDiv(s_tgt, s_cur))
             delta == Mean(group2) - Mean(group1)
             shift == DivSigned(FMul(delta, scale) - delta, 2)
         IN IF s_cur <= 0
            THEN Raise("ValueError: sin(pi/2 * kappa_current) must be > 0")
            ELSE IF scale = Q THEN Ok([group1 |-> group1, group2 |-> group2])
            ELSE Ok([group1 |-> [i \in 1..Len(group1) |-> group1[i] - shift],
                     group2 |-> [i \in 1..Len(group2) |-> group2[i] + shift]])

----------------------------------------------------------------------------
(* utils.py: effect size and discrimination from two samples                *)

compute_cohens_d(g1, g2) ==
    LET n1 == Len(g1)
        n2 == Len(g2)
        var1 == Variance(g1, 1)
        var2 == Variance(g2, 1)
        pooled_sd == IF IsNaN(var1) \/ IsNaN(var2) THEN NaN
                     ELSE FSqrt(DivRound((n1 - 1) * var1 + (n2 - 1) * var2,
                                         n1 + n2 - 2))
    IN IF IsNaN(pooled_sd) THEN NaN
       ELSE IF pooled_sd = 0 THEN 0
       ELSE FDiv(Mean(g2) - Mean(g1), pooled_sd)

compute_cohens_u3(g1, g2) ==
    LET median_g1 == Median(g1)
    IN MeanOfMask(Cardinality({i \in 1..Len(g2) :
                      ~IsNaN(g2[i]) /\ ~IsNaN(median_g1) /\ g2[i] > median_g1}),
                  Len(g2))

\* a variant that gives a tie between a control and a case no weight
compute_roc_auc_untied(g1, g2) ==
    LET below(x2) == Cardinality({i \in 1..Len(g1) :
                         ~IsNaN(g1[i]) /\ ~IsNaN(x2) /\ g1[i] < x2})
    IN DivRound(SumSeq([j \in 1..Len(g2) |-> below(g2[j])]) * Q,
                Len(g1) * Len(g2))

\* Mann-Whitney: controls strictly below each case, ties counted half
compute_roc_auc(g1, g2) ==
    LET below(x2) == Cardinality({i \in 1..Len(g1) :
                         ~IsNaN(g1[i]) /\ ~IsNaN(x2) /\ g1[i] < x2})
        tied(x2)  == Cardinality({i \in 1..Len(g1) :
                         ~IsNaN(g1[i]) /\ ~IsNaN(x2) /\ g1[i] = x2})
        count2 == SumSeq([j \in 1..Len(g2) |->
                              2 * below(g2[j]) + tied(g2[j])])
    IN DivRound(count2 * Q, 2 * Len(g1) * Len(g2))

----------------------------------------------------------------------------
(* utils.py: convert_pt_to_threshold.  The kernel density estimates and    *)
(* the root of the estimated posterior are not computed: the root lies in   *)
(* the search interval [t_min, t_max], at a position that is a function of  *)
(* the samples and fixed here, per behaviour, by the variable kde.          *)

KdeGrain == 1

\* scipy.stats.gaussian_kde(g): "ok", or the exception it raises
gaussian_kde(g) ==
    IF Len(g) <= 1
    THEN "ValueError: dataset input should have multiple elements."
    ELSE IF ~AllFinite(g)
    THEN "ValueError: array must not contain infs or NaNs"
    ELSE IF IsConstant(g) THEN "LinAlgError"
    ELSE "ok"

\* brentq's RuntimeError when its iteration does not converge: the samples on
\* which this happens are left open, and held in hist where a behaviour
\* has any
Diverges(g1, g2) ==
    "diverging" \in DOMAIN hist /\ <<g1, g2>> \in hist.diverging

convert_pt_to_threshold(g1, g2, base_rate, pt) ==
    LET kde1 == gaussian_kde(g1)
        failure == IF kde1 # "ok" THEN kde1 ELSE gaussian_kde(g2)
        all_values == g1 \o g2
        sorted == Sort(all_values)
        t_min == sorted[1] - 2 * Std(all_values)
        t_max == sorted[Len(sorted)] + 2 * Std(all_values)
    IN IF failure = "LinAlgError"
       THEN IF pt < 0 \/ pt > Q
            THEN Raise("ValueError: Percentiles must be in the range [0, 100]")
            ELSE Ok(Percentile(all_values, Q - pt))
       ELSE IF failure # "ok" THEN Raise(failure)
       ELSE IF Diverges(g1, g2)
       THEN Raise("RuntimeError: Failed to converge")
       ELSE Ok(t_min + DivSigned(kde * (t_max - t_min), KdeGrain))

----------------------------------------------------------------------------
(* binary.py: E2PBinary                                                     *)

\* the metrics carried with confidence intervals (r, eta_squared, the odds
\* ratios and pr_auc, further functions of the same two samples, are left out)
MetricKeys ==
    {"cohens_d", "cohens_u3", "roc_auc", "sensitivity", "specificity", "ppv",
     "npv", "accuracy", "balanced_accuracy", "f1", "mcc", "lr_plus",
     "lr_minus", "dor", "youden_j", "g_mean", "kappa", "post_test_prob_plus",
     "post_test_prob_minus", "delta_nb"}

E2PBinary(group1, group2, base_rate, threshold_prob, n_bootstrap, ci_level, random_state) ==
    IF Len(group1) = 0 \/ Len(group2) = 0
    THEN Raise("ValueError: Both groups must have at least one observation")
    ELSE IF ~InOpenUnit(base_rate)
    THEN Raise("ValueError: base_rate must be between 0 and 1 (exclusive)")
    ELSE IF ~InOpenUnit(threshold_prob)
    THEN Raise("ValueError: threshold_prob must be between 0 and 1 (exclusive)")
    ELSE IF ~InOpenUnit(ci_level)
    THEN Raise("ValueError: ci_level must be between 0 and 1 (exclusive)")
    ELSE Ok([exists |-> TRUE, group1 |-> group1, group2 |-> group2,
             base_rate |-> base_rate, threshold_prob |-> threshold_prob,
             n_bootstrap |-> n_bootstrap, ci_level |-> ci_level,
             random_state |-> random_state,
             n1 |-> Len(group1), n2 |-> Len(group2)])

\* the dictionary _compute_all_metrics returns, given the threshold and the
\* threshold-dependent metrics at it
AllMetrics(g1, g2, threshold, threshold_metrics) ==
    IF threshold_metrics.raised THEN Raise(threshold_metrics.error)
    ELSE Ok([cohens_d |-> compute_cohens_d(g1, g2),
             cohens_u3 |-> compute_cohens_u3(g1, g2),
             roc_auc |-> compute_roc_auc(g1, g2),
             threshold_value |-> threshold]
            @@ threshold_metrics.value)

\* _compute_all_metrics from the converted threshold on
MetricsAtThreshold(g1, g2, base_rate, pt, threshold) ==
    IF threshold.raised THEN Raise(threshold.error)
    ELSE AllMetrics(g1, g2, threshold.value,
                    compute_threshold_metrics(g1, g2, threshold.value,
                                              base_rate, pt))

compute_all_metrics(g1, g2, base_rate, pt) ==
    MetricsAtThreshold(g1, g2, base_rate, pt,
                       convert_pt_to_threshold(g1, g2, base_rate, pt))

\* "except Exception: continue": a resample whose metrics raise is skipped
Collect(acc, boot_metrics) ==
    IF boot_metrics.raised THEN acc ELSE Append(acc, boot_metrics.value)

\* a variant whose loop ends at the first resample that raises
RECURSIVE Bootstrap_breaking(_, _, _, _)
Bootstrap_breaking(self, i, state, acc) ==
    IF i = 0 THEN [results |-> acc, state |-> state]
    ELSE LET g1_boot == choice(self.group1, self.n1, state)
             g2_boot == choice(self.group2, self.n2, g1_boot.state)
             boot_metrics == compute_all_metrics(g1_boot.sample,
                                 g2_boot.sample, self.base_rate,
                                 self.threshold_prob)
         IN IF boot_metrics.raised
            THEN [results |-> acc, state |-> g2_boot.state]
            ELSE Bootstrap_breaking(self, i - 1, g2_boot.state,
                                    Collect(acc, boot_metrics))

\* the bootstrap loop of compute, with i iterations left
RECURSIVE Bootstrap(_, _, _, _)
Bootstrap(self, i, state, acc) ==
    IF i = 0 THEN [results |-> acc, state |-> state]
    ELSE LET g1_boot == choice(self.group1, self.n1, state)
             g2_boot == choice(self.group2, self.n2, g1_boot.state)
         IN Bootstrap(self, i - 1, g2_boot.state,
                      Collect(acc,
                              compute_all_metrics(g1_boot.sample,
                                                  g2_boot.sample,
                                                  self.base_rate,
                                                  self.threshold_prob)))

\* a variant with the two percentiles exchanged
make_metric_with_ci_exchanged(key, point_estimates, bootstrap_results, ci_level) ==
    LET estimate == point_estimates[key]
        values == [i \in 1..Len(bootstrap_results) |-> bootstrap_results[i][key]]
        boot_values == SelectSeq(values, IsFinite)
        alpha == Q - ci_level
    IN IF Len(boot_values) > 0
       THEN [estimate |-> estimate,
             ci_lower |-> Percentile(boot_values, Q - alpha \div 2),
             ci_upper |-> Percentile(boot_values, alpha \div 2)]
       ELSE [estimate |-> estimate, ci_lower |-> estimate,
             ci_upper |-> estimate]

make_metric_with_ci(key, point_estimates, bootstrap_results, ci_level) ==
    LET estimate == point_estimates[key]
        values == [i \in 1..Len(bootstrap_results) |-> bootstrap_results[i][key]]
        boot_values == SelectSeq(values, IsFinite)
        alpha == Q - ci_level
    IN IF Len(boot_values) > 0
       THEN [estimate |-> estimate,
             ci_lower |-> Percentile(boot_values, alpha \div 2),
             ci_upper |-> Percentile(boot_values, Q - alpha \div 2)]
       ELSE [estimate |-> estimate, ci_lower |-> estimate,
             ci_upper |-> estimate]

\* a method's effect: what it returns or raises, the phases it ran, the
\* generator state it leaves, and the calculator it worked on
Effect(outcome, phases, state, calculator) ==
    [raised |-> outcome.raised, error |-> outcome.error,
     value |-> outcome.value, steps |-> phases, state |-> state,
     calculator |-> calculator]

\* compute from the point estimates and the bootstrap results on
BinaryResults(self, state, point_estimates, boot) ==
    IF point_estimates.raised
    THEN Effect(Raise(point_estimates.error), <<"point_estimates">>, state,
                self)
    ELSE Effect(Ok([metrics |->
                       [key \in MetricKeys |->
                           make_metric_with_ci(key, point_estimates.value,
                                               boot.results, self.ci_level)],
                    threshold_value |-> point_estimates.value.threshold_value,
                    n_group1 |-> self.n1, n_group2 |-> self.n2,
                    base_rate |-> self.base_rate,
                    threshold_prob |-> self.threshold_prob]),
                <<"point_estimates", "bootstrap", "confidence_intervals">>,
                boot.state, self)

E2PBinary_compute(self, state) ==
    BinaryResults(self, state,
                  compute_all_metrics(self.group1, self.group2, self.base_rate,
                                      self.threshold_prob),
                  Bootstrap(self, self.n_bootstrap, state, <<>>))

E2PBinary_compute_at_threshold(self, threshold_prob, state) ==
    LET threshold == convert_pt_to_threshold(self.group1, self.group2,
                                             self.base_rate, threshold_prob)
        metrics == compute_threshold_metrics(self.group1, self.group2,
                                             threshold.value, self.base_rate,
                                             threshold_prob)
    IN IF threshold.raised
       THEN Effect(Raise(threshold.error), <<"convert_pt_to_threshold">>,
                   state, self)
       ELSE Effect(metrics,
                   <<"convert_pt_to_threshold", "compute_threshold_metrics">>,
                   state, self)

\* a method's effect when a constructor's validation ran before it
AfterValidation(effect) ==
    [effect EXCEPT !.steps = <<"validate">> \o effect.steps]

\* E2PBinary(...).compute(): the constructor seeds the generator, compute
\* draws from it
ConstructAndCompute(group1, group2, base_rate, threshold_prob, n_bootstrap, ci_level, random_state, state) ==
    LET calculator == E2PBinary(group1, group2, base_rate, threshold_prob,
                                n_bootstrap, ci_level, random_state)
    IN IF calculator.raised
       THEN Effect(Raise(calculator.error), <<"validate">>, state, NoObject)
       ELSE AfterValidation(E2PBinary_compute(calculator.value,
                                              seed(random_state, state)))

\* a variant that shifts the group means first and rescales second
E2PBinary_compute_at_reliability_shift_first(self, a, state) ==
    LET missing == None \in {a.r1_current, a.r2_current, a.r1_target, a.r2_target}
        shifted == IF a.kappa_current # None
                   THEN transform_groups_for_target_kappa(self.group1,
                            self.group2, a.kappa_current, a.kappa_target)
                   ELSE Ok([group1 |-> self.group1, group2 |-> self.group2])
        g1_tgt == transform_for_target_reliability(shifted.value.group1,
                      IF a.per_group THEN a.r1_current ELSE a.r_current,
                      IF a.per_group THEN a.r1_target ELSE a.r_target,
                      a.center)
        g2_tgt == transform_for_target_reliability(shifted.value.group2,
                      IF a.per_group THEN a.r2_current ELSE a.r_current,
                      IF a.per_group THEN a.r2_target ELSE a.r_target,
                      a.center)
    IN IF a.per_group /\ missing
       THEN Effect(Raise("ValueError: When per_group=True, you must provide r1_current, r2_current, r1_target, r2_target"),
                   <<"validate">>, state, NoObject)
       ELSE IF shifted.raised
       THEN Effect(Raise(shifted.error), <<"validate">>, state, NoObject)
       ELSE IF g1_tgt.raised
       THEN Effect(Raise(g1_tgt.error), <<"validate">>, state, NoObject)
       ELSE IF g2_tgt.raised
       THEN Effect(Raise(g2_tgt.error), <<"validate">>, state, NoObject)
       ELSE ConstructAndCompute(g1_tgt.value, g2_tgt.value,
                                self.base_rate, self.threshold_prob,
                                self.n_bootstrap, self.ci_level,
                                self.random_state, state)

\* a holds the keyword arguments of compute_at_reliability
E2PBinary_compute_at_reliability(self, a, state) ==
    LET missing == None \in {a.r1_current, a.r2_current, a.r1_target, a.r2_target}
        g1_tgt == IF a.per_group
                  THEN transform_for_target_reliability(self.group1,
                           a.r1_current, a.r1_target, a.center)
                  ELSE transform_for_target_reliability(self.group1,
                           a.r_current, a.r_target, a.center)
        g2_tgt == IF a.per_group
                  THEN transform_for_target_reliability(self.group2,
                           a.r2_current, a.r2_target, a.center)
                  ELSE transform_for_target_reliability(self.group2,
                           a.r_current, a.r_target, a.center)
        shifted == IF a.kappa_current # None
                   THEN transform_groups_for_target_kappa(g1_tgt.value,
                            g2_tgt.value, a.kappa_current, a.kappa_target)
                   ELSE Ok([group1 |-> g1_tgt.value, group2 |-> g2_tgt.value])
    IN IF a.per_group /\ missing
       THEN Effect(Raise("ValueError: When per_group=True, you must provide r1_current, r2_current, r1_target, r2_target"),
                   <<"validate">>, state, NoObject)
       ELSE IF g1_tgt.raised
       THEN Effect(Raise(g1_tgt.error), <<"validate">>, state, NoObject)
       ELSE IF g2_tgt.raised
       THEN Effect(Raise(g2_tgt.error), <<"validate">>, state, NoObject)
       ELSE IF shifted.raised
       THEN Effect(Raise(shifted.error), <<"validate">>, state, NoObject)
       ELSE ConstructAndCompute(shifted.value.group1, shifted.value.group2,
                                self.base_rate, self.threshold_prob,
                                self.n_bootstrap, self.ci_level,
                                self.random_state, state)

e2p_binary(group1, group2, base_rate, threshold_prob, n_bootstrap, ci_level, random_state, state) ==
    ConstructAndCompute(group1, group2, base_rate, threshold_prob, n_bootstrap,
                        ci_level, random_state, state)

e2p_binary_deattenuated(group1, group2, base_rate, threshold_prob, a, n_bootstrap, ci_level, random_state, state) ==
    LET calculator == E2PBinary(group1, group2, base_rate, threshold_prob,
                                n_bootstrap, ci_level, random_state)
    IN IF calculator.raised
       THEN Effect(Raise(calculator.error), <<"validate">>, state, NoObject)
       ELSE E2PBinary_compute_at_reliability(calculator.value, a,
                                             seed(random_state, state))

----------------------------------------------------------------------------
(* continuous.py: E2PContinuous                                             *)

\* a variant with a strict comparison
Dichotomize_strict(Y, y_threshold) ==
    [i \in 1..Len(Y) |->
        ~IsNaN(Y[i]) /\ ~IsNaN(y_threshold) /\ Y[i] > y_threshold]

\* self.Y >= self.y_threshold, elementwise (False against nan)
Dichotomize(Y, y_threshold) ==
    [i \in 1..Len(Y) |->
        ~IsNaN(Y[i]) /\ ~IsNaN(y_threshold) /\ Y[i] >= y_threshold]

E2PContinuous(X, Y, base_rate, threshold_prob, n_bootstrap, ci_level, random_state) ==
    IF Len(X) # Len(Y)
    THEN Raise("ValueError: X and Y must have the same length")
    ELSE IF Len(X) = 0
    THEN Raise("ValueError: X and Y must have at least one observation")
    ELSE IF ~InOpenUnit(base_rate)
    THEN Raise("ValueError: base_rate must be between 0 and 1 (exclusive)")
    ELSE IF ~InOpenUnit(threshold_prob)
    THEN Raise("ValueError: threshold_prob must be between 0 and 1 (exclusive)")
    ELSE LET y_threshold == Percentile(Y, Q - base_rate)
             is_case == Dichotomize(Y, y_threshold)
             group1 == SelectMask(X, is_case, FALSE)
             group2 == SelectMask(X, is_case, TRUE)
         IN IF Len(group1) = 0 \/ Len(group2) = 0
            THEN Raise("ValueError: Dichotomization resulted in empty group(s)")
            ELSE Ok([exists |-> TRUE, X |-> X, Y |-> Y,
                     base_rate |-> base_rate,
                     threshold_prob |-> threshold_prob,
                     n_bootstrap |-> n_bootstrap, ci_level |-> ci_level,
                     random_state |-> random_state,
                     y_threshold |-> y_threshold, is_case |-> is_case,
                     group1 |-> group1, group2 |-> group2])

\* a method's effect together with the instance as the method leaves it
E2PContinuous_compute(self, state) ==
    ConstructAndCompute(self.group1, self.group2, self.base_rate,
                        self.threshold_prob, self.n_bootstrap, self.ci_level,
                        self.random_state, state)

E2PContinuous_compute_at_threshold(self, threshold_prob, state) ==
    LET calculator == E2PBinary(self.group1, self.group2, self.base_rate,
                                threshold_prob, 0, self.ci_level,
                                self.random_state)
    IN IF calculator.raised
       THEN Effect(Raise(calculator.error), <<"validate">>, state, NoObject)
       ELSE AfterValidation(
                E2PBinary_compute_at_threshold(calculator.value,
                    threshold_prob, seed(self.random_state, state)))

\* a variant that dichotomizes again, on the transformed predictor
TransformedGroups_resplit(self, X_tgt) ==
    LET mask == [i \in 1..Len(X_tgt) |->
                    X_tgt[i] >= Percentile(X_tgt, Q - self.base_rate)]
    IN [group1 |-> SelectMask(X_tgt, mask, FALSE),
        group2 |-> SelectMask(X_tgt, mask, TRUE)]

\* group1_tgt = X_tgt[~self.is_case], group2_tgt = X_tgt[self.is_case]
TransformedGroups(self, X_tgt) ==
    [group1 |-> SelectMask(X_tgt, self.is_case, FALSE),
     group2 |-> SelectMask(X_tgt, self.is_case, TRUE)]

\* a holds r_x_current, r_x_target, r_y_current, r_y_target and center
E2PContinuous_compute_at_reliability(self, a, state) ==
    LET X_tgt == transform_for_target_reliability(self.X, a.r_x_current,
                                                  a.r_x_target, a.center)
        Y_tgt == IF a.r_y_current # None /\ a.r_y_target # None
                 THEN transform_for_target_reliability(self.Y, a.r_y_current,
                                                       a.r_y_target, a.center)
                 ELSE Ok(self.Y)
        groups == TransformedGroups(self, X_tgt.value)
    IN IF X_tgt.raised
       THEN Effect(Raise(X_tgt.error), <<"validate">>, state,
                            NoObject)
       ELSE IF (a.r_y_current = None) # (a.r_y_target = None)
       THEN Effect(Raise("ValueError: Provide both r_y_current and r_y_target, or neither"),
                            <<"validate">>, state, NoObject)
       ELSE IF Y_tgt.raised
       THEN Effect(Raise(Y_tgt.error), <<"validate">>, state,
                            NoObject)
       ELSE ConstructAndCompute(groups.group1, groups.group2,
                                         self.base_rate, self.threshold_prob,
                                         self.n_bootstrap, self.ci_level,
                                         self.random_state, state)

e2p_continuous(X, Y, base_rate, threshold_prob, n_bootstrap, ci_level, random_state, state) ==
    LET calculator == E2PContinuous(X, Y, base_rate, threshold_prob,
                                    n_bootstrap, ci_level, random_state)
    IN IF calculator.raised
       THEN Effect(Raise(calculator.error), <<"validate">>, state, NoObject)
       ELSE E2PContinuous_compute(calculator.value, seed(random_state, state))

e2p_continuous_deattenuated(X, Y, base_rate, threshold_prob, a, n_bootstrap, ci_level, random_state, state) ==
    LET calculator == E2PContinuous(X, Y, base_rate, threshold_prob,
                                    n_bootstrap, ci_level, random_state)
    IN IF calculator.raised
       THEN Effect(Raise(calculator.error), <<"validate">>, state, NoObject)
       ELSE E2PContinuous_compute_at_reliability(calculator.value, a,
                                                 seed(random_state, state))

----------------------------------------------------------------------------
(* SpecEmpirical: a caller constructs an E2PBinary or an E2PContinuous     *)
(* instance and calls its methods, in any number and order.  The generator *)
(* starts in any state.                                                     *)

BinarySamples ==
    {[group1 |-> <<>>, group2 |-> <<1000, 3000>>],
     [group1 |-> <<0, 1000>>, group2 |-> <<1000, 3000>>],
     [group1 |-> <<NaN, 1000>>, group2 |-> <<1000, 3000>>],
     [group1 |-> <<0, 1000>>, group2 |-> <<2000, PosInf>>],
     [group1 |-> <<0, 0>>, group2 |-> <<1000, 3000>>],
     [group1 |-> <<0, 1000, 2000>>, group2 |-> <<2000>>],
     [group1 |-> <<0, 0, 3000>>, group2 |-> <<1000, 3000>>]}
ContinuousSamples ==
    {[X |-> <<>>, Y |-> <<>>],
     [X |-> <<0, 1000>>, Y |-> <<1000, 2000, 3000>>],
     [X |-> <<0, 3000, 1000, 2000>>, Y |-> <<1000, 2000, 3000, 4000>>],
     [X |-> <<0, 1000, 2000, 3000>>, Y |-> <<1000, 2000, 2000, 3000>>],
     [X |-> <<0, 1000, 2000, 3000>>, Y |-> <<2000, 2000, 2000, 2000>>],
     [X |-> <<NaN, 1000, 2000, 3000>>, Y |-> <<1000, 2000, 3000, 4000>>],
     [X |-> <<0, 1000, 2000, 3000>>, Y |-> <<1000, NaN, 3000, 4000>>],
     [X |-> <<0, 1000, PosInf, 3000>>, Y |-> <<1000, 2000, 3000, 4000>>],
     [X |-> <<0, 1000, 2000, 3000>>, Y |-> <<1000, 2000, 3000, PosInf>>]}
BaseRates == {0, 500}
ThresholdProbs == {500, 1000}
MethodThresholdProbs == {-200, 0, 300, 1000, 1200}
BootstrapCounts == {0, 2}
CiLevels == {950}
RandomStates == {None, 1}
BinaryReliabilityArgs ==
    {[r_current |-> rc, r_target |-> 1000, kappa_current |-> kc,
      kappa_target |-> 1000, per_group |-> FALSE, r1_current |-> None,
      r2_current |-> None, r1_target |-> None, r2_target |-> None,
      center |-> "mean"] : rc \in {500, 1500}, kc \in {None, 500}}
    \cup
    {[r_current |-> 500, r_target |-> 1000, kappa_current |-> kc,
      kappa_target |-> 1000, per_group |-> FALSE, r1_current |-> None,
      r2_current |-> None, r1_target |-> None, r2_target |-> None,
      center |-> "median"] : kc \in {500, 1500}}
    \cup
    {[r_current |-> 1000, r_target |-> 1000, kappa_current |-> None,
      kappa_target |-> 1000, per_group |-> TRUE, r1_current |-> 500,
      r2_current |-> r2, r1_target |-> 1000, r2_target |-> 1000,
      center |-> "median"] : r2 \in {None, 250}}
ContinuousReliabilityArgs ==
    {[r_x_current |-> 500, r_x_target |-> 1000, r_y_current |-> None,
      r_y_target |-> None, center |-> "mean"],
     [r_x_current |-> 500, r_x_target |-> 1000, r_y_current |-> 500,
      r_y_target |-> 1000, center |-> "median"],
     [r_x_current |-> 500, r_x_target |-> 1000, r_y_current |-> 250,
      r_y_target |-> 500, center |-> "mean"],
     [r_x_current |-> 500, r_x_target |-> 1000, r_y_current |-> 500,
      r_y_target |-> None, center |-> "mean"],
     [r_x_current |-> 1500, r_x_target |-> 1000, r_y_current |-> None,
      r_y_target |-> None, center |-> "mean"]}

InitEmpirical ==
    /\ Idle
    /\ rng \in 0..(RngModulus - 1)
    /\ kde \in 0..KdeGrain
    /\ bin = NoObject
    /\ cont = NoObject
    /\ hist = NoReference

\* one call on the empirical engine: its outcome, and the generator after it
Invoke(name, a, effect) ==
    \E e \in {effect} :
        /\ op' = name
        /\ args' = a
        /\ err' = e.error
        /\ ret' = [none |-> e.raised, value |-> e.value,
                   calculator |-> e.calculator]
        /\ steps' = e.steps
        /\ rng' = e.state

NewBinary ==
    /\ ~bin.exists /\ ~cont.exists
    /\ \E sample \in BinarySamples, base_rate \in BaseRates,
          threshold_prob \in ThresholdProbs, n_bootstrap \in BootstrapCounts,
          ci_level \in CiLevels, random_state \in RandomStates :
        LET made == E2PBinary(sample.group1, sample.group2, base_rate,
                              threshold_prob, n_bootstrap, ci_level,
                              random_state)
        IN /\ Invoke("E2PBinary",
                     [group1 |-> sample.group1, group2 |-> sample.group2,
                      base_rate |-> base_rate,
                      threshold_prob |-> threshold_prob,
                      n_bootstrap |-> n_bootstrap, ci_level |-> ci_level,
                      random_state |-> random_state],
                     Effect(IF made.raised THEN made ELSE Ok(NaN),
                            IF made.raised THEN <<"validate">>
                            ELSE <<"validate", "seed">>,
                            IF made.raised THEN rng
                            ELSE seed(random_state, rng),
                            NoObject))
           /\ bin' = IF made.raised THEN bin ELSE made.value
           /\ cont' = IF made.raised THEN cont ELSE NoObject
           /\ UNCHANGED <<kde, hist>>

BinaryCompute ==
    /\ bin.exists
    /\ Invoke("E2PBinary.compute", <<>>, E2PBinary_compute(bin, rng))
    /\ UNCHANGED <<bin, cont, kde, hist>>

BinaryComputeAtThreshold ==
    /\ bin.exists
    /\ \E threshold_prob \in MethodThresholdProbs :
        Invoke("E2PBinary.compute_at_threshold",
               [threshold_prob |-> threshold_prob],
               E2PBinary_compute_at_threshold(bin, threshold_prob, rng))
    /\ UNCHANGED <<bin, cont, kde, hist>>

BinaryComputeAtReliability ==
    /\ bin.exists
    /\ \E a \in BinaryReliabilityArgs :
        Invoke("E2PBinary.compute_at_reliability", a,
               E2PBinary_compute_at_reliability(bin, a, rng))
    /\ UNCHANGED <<bin, cont, kde, hist>>

NewContinuous ==
    /\ ~bin.exists /\ ~cont.exists
    /\ \E sample \in ContinuousSamples, base_rate \in BaseRates,
          threshold_prob \in ThresholdProbs, n_bootstrap \in BootstrapCounts,
          ci_level \in CiLevels, random_state \in RandomStates :
        LET made == E2PContinuous(sample.X, sample.Y, base_rate,
                                  threshold_prob, n_bootstrap, ci_level,
                                  random_state)
        IN /\ Invoke("E2PContinuous",
                     [X |-> sample.X, Y |-> sample.Y, base_rate |-> base_rate,
                      threshold_prob |-> threshold_prob,
                      n_bootstrap |-> n_bootstrap, ci_level |-> ci_level,
                      random_state |-> random_state],
                     Effect(IF made.raised THEN made ELSE Ok(NaN),
                            IF made.raised THEN <<"validate">>
                            ELSE <<"validate", "dichotomize", "seed">>,
                            IF made.raised THEN rng
                            ELSE seed(random_state, rng),
                            NoObject))
           /\ cont' = IF made.raised THEN cont ELSE made.value
           /\ bin' = IF made.raised THEN bin ELSE NoObject
           /\ UNCHANGED <<kde, hist>>

ContinuousCompute ==
    /\ cont.exists
    /\ Invoke("E2PContinuous.compute", <<>>, E2PContinuous_compute(cont, rng))
    /\ cont' = cont
    /\ UNCHANGED <<bin, kde, hist>>

ContinuousComputeAtThreshold ==
    /\ cont.exists
    /\ \E threshold_prob \in MethodThresholdProbs :
        /\ Invoke("E2PContinuous.compute_at_threshold",
                  [threshold_prob |-> threshold_prob],
                  E2PContinuous_compute_at_threshold(cont, threshold_prob,
                                                     rng))
        /\ cont' = cont
    /\ UNCHANGED <<bin, kde, hist>>

ContinuousComputeAtReliability ==
    /\ cont.exists
    /\ \E a \in ContinuousReliabilityArgs :
        /\ Invoke("E2PContinuous.compute_at_reliability", a,
                  E2PContinuous_compute_at_reliability(cont, a, rng))
        /\ cont' = cont
    /\ UNCHANGED <<bin, kde, hist>>

NextEmpirical ==
    \/ NewBinary
    \/ BinaryCompute
    \/ BinaryComputeAtThreshold
    \/ BinaryComputeAtReliability
    \/ NewContinuous
    \/ ContinuousCompute
    \/ ContinuousComputeAtThreshold
    \/ ContinuousComputeAtReliability

SpecEmpirical == InitEmpirical /\ [][NextEmpirical]_vars

----------------------------------------------------------------------------
(* SpecReproducible: a caller calls the convenience functions, in any      *)
(* number and order, and other code draws from the global generator in     *)
(* between.  hist keeps the first seeded call as the reference that later  *)
(* calls with the same arguments are compared with.                        *)

ReproBinarySamples ==
    {[group1 |-> <<0, 1000, 2000>>, group2 |-> <<1000, 3000, 4000>>]}
ReproContinuousSamples ==
    {[X |-> <<0, 3000, 1000, 2000, 5000, 4000>>,
      Y |-> <<1000, 2000, 3000, 4000, 5000, 6000>>]}
ReproBootstrapCounts == {2}
ReproRandomStates == {None, 1}
ReproBinaryReliabilityArgs ==
    {[r_current |-> 500, r_target |-> 1000, kappa_current |-> None,
      kappa_target |-> 1000, per_group |-> FALSE, r1_current |-> None,
      r2_current |-> None, r1_target |-> None, r2_target |-> None,
      center |-> "mean"]}
ReproContinuousReliabilityArgs ==
    {[r_x_current |-> 500, r_x_target |-> 1000, r_y_current |-> None,
      r_y_target |-> None, center |-> "mean"]}

InitReproducible ==
    /\ Idle
    /\ rng \in 0..(RngModulus - 1)
    /\ kde \in 0..KdeGrain
    /\ bin = NoObject
    /\ cont = NoObject
    /\ hist = NoReference

\* the first call with a random_state becomes the reference; a later call
\* with the reference's arguments from another generator state replays it
Remember(name, a, effect) ==
    hist' = IF ~hist.set
            THEN IF a.random_state = None THEN hist
                 ELSE [set |-> TRUE, name |-> name, args |-> a,
                       raised |-> effect.raised, error |-> effect.error,
                       value |-> effect.value, rng_before |-> rng,
                       replayed |-> FALSE]
            ELSE IF hist.name = name /\ hist.args = a /\ hist.rng_before # rng
            THEN [hist EXCEPT !.replayed = TRUE]
            ELSE hist

Convenience(name, a, effect) ==
    \E e \in {effect} :
        /\ Invoke(name, a, e)
        /\ Remember(name, a, e)
        /\ UNCHANGED <<bin, cont, kde>>

\* any other use of numpy's global generator
RandomDraw ==
    /\ rng' = NextRandom(rng)
    /\ UNCHANGED <<op, args, err, ret, steps, bin, cont, kde, hist>>

E2pBinary ==
    \E s \in ReproBinarySamples, n \in ReproBootstrapCounts,
       rs \in ReproRandomStates :
        Convenience("e2p_binary",
            [group1 |-> s.group1, group2 |-> s.group2, base_rate |-> 500,
             threshold_prob |-> 500, n_bootstrap |-> n, ci_level |-> 950,
             random_state |-> rs],
            e2p_binary(s.group1, s.group2, 500, 500, n, 950, rs, rng))

E2pBinaryDeattenuated ==
    \E s \in ReproBinarySamples, n \in ReproBootstrapCounts,
       rs \in ReproRandomStates, a \in ReproBinaryReliabilityArgs :
        Convenience("e2p_binary_deattenuated",
            [group1 |-> s.group1, group2 |-> s.group2, base_rate |-> 500,
             threshold_prob |-> 500, reliability |-> a, n_bootstrap |-> n,
             ci_level |-> 950, random_state |-> rs],
            e2p_binary_deattenuated(s.group1, s.group2, 500, 500, a, n, 950,
                                    rs, rng))

E2pContinuous ==
    \E s \in ReproContinuousSamples, n \in ReproBootstrapCounts,
       rs \in ReproRandomStates :
        Convenience("e2p_continuous",
            [X |-> s.X, Y |-> s.Y, base_rate |-> 500, threshold_prob |-> 500,
             n_bootstrap |-> n, ci_level |-> 950, random_state |-> rs],
            e2p_continuous(s.X, s.Y, 500, 500, n, 950, rs, rng))

E2pContinuousDeattenuated ==
    \E s \in ReproContinuousSamples, n \in ReproBootstrapCounts,
       rs \in ReproRandomStates, a \in ReproContinuousReliabilityArgs :
        Convenience("e2p_continuous_deattenuated",
            [X |-> s.X, Y |-> s.Y, base_rate |-> 500, threshold_prob |-> 500,
             reliability |-> a, n_bootstrap |-> n, ci_level |-> 950,
             random_state |-> rs],
            e2p_continuous_deattenuated(s.X, s.Y, 500, 500, a, n, 950, rs,
                                        rng))

NextReproducible ==
    \/ RandomDraw
    \/ E2pBinary
    \/ E2pBinaryDeattenuated
    \/ E2pContinuous
    \/ E2pContinuousDeattenuated

SpecReproducible == InitReproducible /\ [][NextReproducible]_vars

----------------------------------------------------------------------------
(* Properties of the empirical classes                                      *)

HasNonFinite(g) == \E i \in 1..Len(g) : ~IsFinite(g[i])

\* thresholding Y at its (1 - base_rate) percentile leaves a group empty
DegenerateSplit(Y, base_rate) ==
    LET mask == Dichotomize(Y, Percentile(Y, Q - base_rate))
    IN (\A i \in 1..Len(Y) : mask[i]) \/ (\A i \in 1..Len(Y) : ~mask[i])

RejectedInValidation == err # "none" /\ ret.none /\ steps = <<"validate">>

\* C2: constructing E2PBinary or E2PContinuous raises, with nothing
\* computed, for every structurally invalid sample: an empty group, X and Y
\* of different lengths, empty X and Y, a dichotomization that leaves a
\* group empty, or a NaN or infinite value in group1, group2, X or Y.
C2_InvalidSampleRejected ==
    /\ (/\ op = "E2PBinary"
        /\ \/ Len(args.group1) = 0
           \/ Len(args.group2) = 0
           \/ HasNonFinite(args.group1)
           \/ HasNonFinite(args.group2))
       => RejectedInValidation
    /\ (/\ op = "E2PContinuous"
        /\ \/ Len(args.X) # Len(args.Y)
           \/ Len(args.X) = 0
           \/ HasNonFinite(args.X)
           \/ HasNonFinite(args.Y)
           \/ DegenerateSplit(args.Y, args.base_rate))
       => RejectedInValidation

\* C3: compute_at_threshold(p) of E2PBinary and of E2PContinuous rejects
\* p <= 0 and p >= 1 with the constructors' validation error, before the
\* threshold search and the metric computation run.
C3_MethodThresholdValidated ==
    (/\ op \in {"E2PBinary.compute_at_threshold",
                "E2PContinuous.compute_at_threshold"}
     /\ (args.threshold_prob <= 0 \/ args.threshold_prob >= Q))
    => /\ err = "ValueError: threshold_prob must be between 0 and 1 (exclusive)"
       /\ ret.none
       /\ steps = <<"validate">>

ContinuousMethods ==
    {"E2PContinuous.compute", "E2PContinuous.compute_at_threshold",
     "E2PContinuous.compute_at_reliability"}

\* C5: no call of compute, compute_at_threshold or compute_at_reliability
\* changes an E2PContinuous instance's is_case, y_threshold, X, Y, group1
\* or group2, and the groups that compute_at_reliability computes on are
\* the transformed X split by the original mask.
C5_SplitIsFrozen ==
    [][(cont.exists /\ op' \in ContinuousMethods)
       => /\ cont'.exists
          /\ cont'.is_case = cont.is_case
          /\ cont'.y_threshold = cont.y_threshold
          /\ cont'.X = cont.X
          /\ cont'.Y = cont.Y
          /\ cont'.group1 = cont.group1
          /\ cont'.group2 = cont.group2
          /\ (op' = "E2PContinuous.compute_at_reliability"
              /\ ret'.calculator.exists)
             => LET X_tgt == transform_for_target_reliability(cont.X,
                                 args'.r_x_current, args'.r_x_target,
                                 args'.center).value
                IN /\ ret'.calculator.group1
                      = SelectMask(X_tgt, cont.is_case, FALSE)
                   /\ ret'.calculator.group2
                      = SelectMask(X_tgt, cont.is_case, TRUE)]_vars

\* C5's case: compute_at_reliability has computed on groups that differ from
\* the stored ones, and the instance still holds the original split
C5_ReliabilityComputedOnOriginalSplit ==
    /\ op = "E2PContinuous.compute_at_reliability"
    /\ err = "none"
    /\ ret.calculator.exists
    /\ ret.calculator.group1 # cont.group1
    /\ cont.group1 = SelectMask(cont.X, cont.is_case, FALSE)
    /\ cont.X # Sort(cont.X)

\* C6: after a successful E2PContinuous construction both groups are
\* non-empty, their sizes add up to len(X), is_case[i] holds exactly when
\* Y[i] >= the (1 - base_rate) percentile of Y, group1 = X[~is_case] and
\* group2 = X[is_case]; when that split would leave a group empty,
\* construction raises.
C6_SplitIsPartition ==
    /\ cont.exists
       => LET percentile == Percentile(cont.Y, Q - cont.base_rate)
          IN /\ Len(cont.group1) > 0
             /\ Len(cont.group2) > 0
             /\ Len(cont.group1) + Len(cont.group2) = Len(cont.X)
             /\ Len(cont.is_case) = Len(cont.Y)
             /\ cont.y_threshold = percentile
             /\ \A i \in 1..Len(cont.Y) :
                    cont.is_case[i]
                    <=> (~IsNaN(cont.Y[i]) /\ ~IsNaN(percentile)
                         /\ cont.Y[i] >= percentile)
             /\ cont.group1 = SelectMask(cont.X, cont.is_case, FALSE)
             /\ cont.group2 = SelectMask(cont.X, cont.is_case, TRUE)
    /\ (op = "E2PContinuous" /\ err = "none")
       => /\ cont.exists
          /\ cont.X = args.X
          /\ cont.Y = args.Y
          /\ cont.base_rate = args.base_rate
    /\ (/\ op = "E2PContinuous"
        /\ Len(args.X) = Len(args.Y)
        /\ Len(args.X) > 0
        /\ DegenerateSplit(args.Y, args.base_rate))
       => err # "none" /\ ~cont.exists

\* C6's case: a constructed instance whose Y has a value equal to the
\* percentile, counted as a case
C6_TieAtPercentileIsCase ==
    /\ op = "E2PContinuous"
    /\ err = "none"
    /\ cont.exists
    /\ \E i \in 1..Len(cont.Y) :
          cont.Y[i] = cont.y_threshold /\ cont.is_case[i]
    /\ \E i \in 1..Len(cont.Y) : ~cont.is_case[i]

----------------------------------------------------------------------------
(* Properties of the convenience functions                                  *)

ConvenienceFunctions ==
    {"e2p_binary", "e2p_binary_deattenuated", "e2p_continuous",
     "e2p_continuous_deattenuated"}

\* C10: e2p_binary, e2p_continuous and their deattenuated variants, called
\* again with the same arguments and the same non-None random_state, return
\* the same point estimates and the same confidence intervals (or raise the
\* same error), whatever was drawn from the generator or called in between.
C10_SeededCallsReproduce ==
    (/\ hist.set
     /\ op = hist.name
     /\ args = hist.args)
    => /\ ret.none = hist.raised
       /\ err = hist.error
       /\ ret.value = hist.value

\* C10's case: a seeded call with bootstrap resampling was repeated from a
\* generator state other than the one the reference started in, and its
\* confidence intervals are proper intervals
C10_SeededCallReplayed ==
    /\ hist.set
    /\ hist.replayed
    /\ op = hist.name
    /\ args = hist.args
    /\ op \in ConvenienceFunctions
    /\ args.random_state # None
    /\ args.n_bootstrap > 0
    /\ ~ret.none
    /\ \E key \in MetricKeys :
          ret.value.metrics[key].ci_lower # ret.value.metrics[key].ci_upper

----------------------------------------------------------------------------
(* SpecConversions: a caller converts Cohen's d to another effect-size     *)
(* representation, or converts a value of one of them to d; the value      *)
(* converted to d is either the caller's own or the one the forward        *)
(* conversion just returned.  hist keeps the d a round trip started from.  *)

RoundTripEffectSizes == {-2000, -1500, -800, -300, 0, 300, 800, 1500, 2000}
SaturatingEffectSizes == {12000}
RoundTripBaseRates == {100, 500, 900}
Aucs == {0, 300, 500, 714, 1000, 1200}
PearsonRs == {-1200, -1000, -500, 0, 371, 1000, 1200}
LogOddsRatios == {-1450, 0, 1450}

InitConversions ==
    /\ Idle
    /\ rng = 0
    /\ bin = NoObject
    /\ cont = NoObject
    /\ kde = 0
    /\ hist = NoReference

\* a conversion from d
Forward(name, a, value) ==
    /\ Call(name, a, Outcome(Ok(value), <<"compute">>))
    /\ UNCHANGED <<rng, bin, cont, kde, hist>>

\* the values an inverse conversion is called on: the caller's own, or the
\* result of the forward conversion named
InverseInputs(forward, own) ==
    IF op = "none" THEN own
    ELSE IF op = forward /\ ~ret.none THEN {ret.value}
    ELSE {}

\* a conversion to d; after a forward conversion it closes a round trip
Inverse(name, a, outcome) ==
    /\ op' = name
    /\ args' = a
    /\ err' = outcome.error
    /\ ret' = IF outcome.raised THEN NoResult ELSE Result(outcome.value)
    /\ steps' = outcome.steps
    /\ hist' = IF op = "none" THEN hist
               ELSE [set |-> TRUE, forward |-> op, args |-> args,
                     d |-> args.d, via |-> ret.value]
    /\ UNCHANGED <<rng, bin, cont, kde>>

DToOddsRatio ==
    /\ op = "none"
    /\ \E d \in RoundTripEffectSizes :
        Forward("d_to_odds_ratio", [d |-> d], d_to_odds_ratio(d))

DToLogOddsRatio ==
    /\ op = "none"
    /\ \E d \in RoundTripEffectSizes :
        Forward("d_to_log_odds_ratio", [d |-> d], d_to_log_odds_ratio(d))

DToCohensU3 ==
    /\ op = "none"
    /\ \E d \in RoundTripEffectSizes \cup SaturatingEffectSizes :
        Forward("d_to_cohens_u3", [d |-> d], d_to_cohens_u3(d))

DToPointBiserialR ==
    /\ op = "none"
    /\ \E d \in RoundTripEffectSizes, base_rate \in RoundTripBaseRates :
        Forward("d_to_point_biserial_r", [d |-> d, base_rate |-> base_rate],
                d_to_point_biserial_r(d, base_rate))

RocAucParametric ==
    /\ op = "none"
    /\ \E d \in RoundTripEffectSizes \cup SaturatingEffectSizes :
        Forward("compute_roc_auc_parametric",
                [d |-> d, sigma1 |-> Q, sigma2 |-> Q],
                compute_roc_auc_parametric(d, Q, Q))

OddsRatioBack ==
    \E odds_ratio \in InverseInputs("d_to_odds_ratio", OddsRatios) :
        Inverse("odds_ratio_to_d", [odds_ratio |-> odds_ratio],
                Phased(odds_ratio_to_d(odds_ratio)))

LogOddsRatioBack ==
    \E log_odds_ratio \in InverseInputs("d_to_log_odds_ratio", LogOddsRatios) :
        Inverse("log_odds_ratio_to_d", [log_odds_ratio |-> log_odds_ratio],
                Outcome(Ok(log_odds_ratio_to_d(log_odds_ratio)),
                        <<"compute">>))

CohensU3Back ==
    \E u3 \in InverseInputs("d_to_cohens_u3", U3s) :
        Inverse("cohens_u3_to_d", [u3 |-> u3], Phased(cohens_u3_to_d(u3)))

RToD ==
    \E r \in InverseInputs("d_to_point_biserial_r", PearsonRs) :
        Inverse("r_to_d", [r |-> r], Outcome(Ok(r_to_d(r)), <<"compute">>))

AucToD ==
    \E auc \in InverseInputs("compute_roc_auc_parametric", Aucs) :
        Inverse("auc_to_d", [auc |-> auc],
                Outcome(Ok(auc_to_d(auc)), <<"compute">>))

\* mcp_server.py: convert_effect_size, the d-mediated dispatcher

EffectSizeTypes == {"d", "auc", "or", "log_or", "u3", "r"}
DispatchTypes == EffectSizeTypes \cup {"eta"}
DispatchValues == {-1000, 0, 300, 788, 1000, 4270}
DispatchBaseRates == {0, 100, 500}

\* the converters to Cohen's d
to_d(from_type, x) ==
    CASE from_type = "d" -> Ok(x)
      [] from_type = "auc" -> Ok(auc_to_d(x))
      [] from_type = "or" -> odds_ratio_to_d(x)
      [] from_type = "log_or" -> Ok(log_odds_ratio_to_d(x))
      [] from_type = "u3" -> cohens_u3_to_d(x)
      [] from_type = "r" -> Ok(r_to_d(x))

\* a converter from d at d = +/-inf, in floating point: the CDF and the
\* exponential saturate, and d / sqrt(d^2 + c) is inf / inf
AtInfinity(to_type, d) ==
    CASE to_type \in {"d", "log_or"} -> d
      [] to_type \in {"auc", "u3"} -> IF d = PosInf THEN Q ELSE 0
      [] to_type = "or" -> IF d = PosInf THEN PosInf ELSE 0
      [] to_type = "r" -> NaN

\* the converters from Cohen's d
from_d(to_type, d, base_rate) ==
    IF to_type = "r" /\ FMul(base_rate, Q - base_rate) = 0
    THEN Raise("ZeroDivisionError")
    ELSE IF IsNaN(d) THEN Ok(NaN)
    ELSE IF IsInf(d) THEN Ok(AtInfinity(to_type, d))
    ELSE CASE to_type = "d" -> Ok(d)
           [] to_type = "auc" -> Ok(compute_roc_auc_parametric(d, Q, Q))
           [] to_type = "or" -> Ok(d_to_odds_ratio(d))
           [] to_type = "log_or" -> Ok(d_to_log_odds_ratio(d))
           [] to_type = "u3" -> Ok(d_to_cohens_u3(d))
           [] to_type = "r" -> Ok(d_to_point_biserial_r(d, base_rate))

\* the dictionary convert_effect_size returns, or the second converter's error
Converted(value, from_type, to_type, d, result) ==
    Outcome(IF result.raised THEN result
            ELSE Ok([input_value |-> value, input_type |-> from_type,
                     output_value |-> result.value, output_type |-> to_type,
                     cohens_d |-> d]),
            <<"validate", "to_d", "from_d">>)

\* convert_effect_size once the first converter has run
Mediated(value, from_type, to_type, base_rate, d) ==
    IF d.raised THEN Outcome(d, <<"validate", "to_d">>)
    ELSE Converted(value, from_type, to_type, d.value,
                   from_d(to_type, d.value, base_rate))

\* a variant that returns the value itself when the two types agree
convert_effect_size_shortcut(value, from_type, to_type, base_rate) ==
    IF from_type \notin EffectSizeTypes
    THEN Outcome(Raise("ValueError: Unknown from_type"), <<"validate">>)
    ELSE IF to_type \notin EffectSizeTypes
    THEN Outcome(Raise("ValueError: Unknown to_type"), <<"validate">>)
    ELSE IF from_type = to_type
    THEN Converted(value, from_type, to_type, value, Ok(value))
    ELSE Mediated(value, from_type, to_type, base_rate,
                  to_d(from_type, value))

convert_effect_size(value, from_type, to_type, base_rate) ==
    IF from_type \notin EffectSizeTypes
    THEN Outcome(Raise("ValueError: Unknown from_type"), <<"validate">>)
    ELSE IF to_type \notin EffectSizeTypes
    THEN Outcome(Raise("ValueError: Unknown to_type"), <<"validate">>)
    ELSE Mediated(value, from_type, to_type, base_rate,
                  to_d(from_type, value))

ConvertEffectSize ==
    /\ op = "none"
    /\ \E value \in DispatchValues, from_type \in DispatchTypes,
          to_type \in DispatchTypes, base_rate \in DispatchBaseRates :
        /\ Call("convert_effect_size",
                [value |-> value, from_type |-> from_type,
                 to_type |-> to_type, base_rate |-> base_rate],
                convert_effect_size(value, from_type, to_type, base_rate))
        /\ UNCHANGED <<rng, bin, cont, kde, hist>>

NextConversions ==
    \/ ConvertEffectSize
    \/ DToOddsRatio
    \/ DToLogOddsRatio
    \/ DToCohensU3
    \/ DToPointBiserialR
    \/ RocAucParametric
    \/ OddsRatioBack
    \/ LogOddsRatioBack
    \/ CohensU3Back
    \/ RToD
    \/ AucToD

SpecConversions == InitConversions /\ [][NextConversions]_vars

----------------------------------------------------------------------------
(* Properties of the conversions                                            *)

\* what the fixed point resolves of a round trip over |d| <= 2
RoundTripTolerance == Q \div 40

\* the intermediate value of a round trip is one of the boundary values
\* AUC = 1, U3 = 1, |r| = 1
BoundaryIntermediate ==
    \/ hist.forward = "compute_roc_auc_parametric" /\ hist.via = Q
    \/ hist.forward = "d_to_cohens_u3" /\ hist.via = Q
    \/ hist.forward = "d_to_point_biserial_r" /\ Abs(hist.via) = Q

\* C11: converting a finite d to odds ratio, log odds ratio, Cohen's U3,
\* point-biserial r (any base_rate in (0,1)) or ROC-AUC (unit sigmas) and
\* back with odds_ratio_to_d, log_odds_ratio_to_d, cohens_u3_to_d, r_to_d or
\* auc_to_d recovers d, unless the intermediate value is a boundary value.
C11_RoundTripRecoversD ==
    (hist.set /\ ~BoundaryIntermediate)
    => /\ ~ret.none
       /\ IsFinite(ret.value)
       /\ Abs(ret.value - hist.d) <= RoundTripTolerance

\* C20: the inverse conversions return values at their boundaries: auc_to_d
\* is 0 for every auc <= 0.5 and +infinity for every auc >= 1; r_to_d is
\* +infinity for r >= 1, -infinity for r <= -1 and 0 for r = 0;
\* d_to_cohens_u3(0) = 0.5 and d_to_odds_ratio(0) = 1.
C20_BoundaryOutputsAreValues ==
    /\ op = "auc_to_d"
       => /\ err = "none" /\ ~ret.none
          /\ args.auc <= Q \div 2 => ret.value = 0
          /\ args.auc >= Q => ret.value = PosInf
    /\ op = "r_to_d"
       => /\ err = "none" /\ ~ret.none
          /\ args.r >= Q => ret.value = PosInf
          /\ args.r <= -Q => ret.value = NegInf
          /\ args.r = 0 => ret.value = 0
    /\ (op = "d_to_cohens_u3" /\ args.d = 0) => ret.value = Q \div 2
    /\ (op = "d_to_odds_ratio" /\ args.d = 0) => ret.value = Q

\* C20's case: auc_to_d was called on an AUC below 0.5 of the caller's own
C20_AucBelowHalfGivesZero ==
    /\ op = "auc_to_d"
    /\ ~hist.set
    /\ args.auc > 0
    /\ args.auc < Q \div 2
    /\ ret.value = 0

----------------------------------------------------------------------------
(* SpecReliability: one call of a reliability formula (attenuate_d,        *)
(* compute_sigma_from_icc, the two sample transforms, or                   *)
(* e2p_parametric_binary), or transform_for_target_reliability applied to  *)
(* the sample the previous call of it returned, with the two reliabilities *)
(* exchanged.  hist keeps the sample such a round trip started from.       *)

TransformSamples ==
    {<<>>, <<0, 1000, 2000, 6000>>, <<-3000, 500, 500, 4000, 1000>>,
     <<2000, 2000>>, <<NaN, 1000>>, <<1000, PosInf>>}
TransformReliabilities == {-250, 0, 250, 500, 1000, 1250}
Centers == {"mean", "median", "mode"}
KappaSamples ==
    {[group1 |-> <<0, 1000, 2000>>, group2 |-> <<1000, 3000, 4000>>],
     [group1 |-> <<2000, 4000>>, group2 |-> <<0, 1000, 1000>>],
     [group1 |-> <<0, 2000>>, group2 |-> <<1000, NaN>>]}
TransformKappas == {-500, 0, 250, 500, 1000, 1500}

TransformForTargetReliability ==
    /\ op = "none"
    /\ \E x \in TransformSamples, r_current \in TransformReliabilities,
          r_target \in TransformReliabilities, center \in Centers :
        /\ Call("transform_for_target_reliability",
                [x |-> x, r_current |-> r_current, r_target |-> r_target,
                 center |-> center],
                Phased(transform_for_target_reliability(x, r_current,
                                                        r_target, center)))
        /\ UNCHANGED <<rng, bin, cont, kde, hist>>

\* the transform from r_target back to r_current, on the sample returned
TransformBack ==
    /\ op = "transform_for_target_reliability"
    /\ ~ret.none
    /\ ~hist.set
    /\ \E r \in {Phased(transform_for_target_reliability(ret.value,
                     args.r_target, args.r_current, args.center))} :
        /\ op' = op
        /\ args' = [x |-> ret.value, r_current |-> args.r_target,
                    r_target |-> args.r_current, center |-> args.center]
        /\ err' = r.error
        /\ ret' = IF r.raised THEN NoResult ELSE Result(r.value)
        /\ steps' = r.steps
        /\ hist' = [set |-> TRUE, x |-> args.x]
        /\ UNCHANGED <<rng, bin, cont, kde>>

TransformGroupsForTargetKappa ==
    /\ op = "none"
    /\ \E g \in KappaSamples, kappa_current \in TransformKappas,
          kappa_target \in TransformKappas :
        /\ Call("transform_groups_for_target_kappa",
                [group1 |-> g.group1, group2 |-> g.group2,
                 kappa_current |-> kappa_current,
                 kappa_target |-> kappa_target],
                Phased(transform_groups_for_target_kappa(g.group1, g.group2,
                           kappa_current, kappa_target)))
        /\ UNCHANGED <<rng, bin, cont, kde, hist>>

NextReliability ==
    \/ AttenuateD
    \/ ComputeSigmaFromIcc
    \/ ParametricBinary
    \/ TransformForTargetReliability
    \/ TransformBack
    \/ TransformGroupsForTargetKappa

SpecReliability == InitParametric /\ [][NextReliability]_vars

----------------------------------------------------------------------------
(* Properties of the reliability formulas                                   *)

OtherView(view) == IF view = "true" THEN "observed" ELSE "true"

\* C12: reliability 1.0 and an unchanged reliability are no-ops:
\* attenuate_d(d, 1.0) = d; compute_sigma_from_icc(1.0) = 1;
\* transform_for_target_reliability(x, r, r, center) returns x element for
\* element; transform_groups_for_target_kappa with kappa_target =
\* kappa_current returns both groups unchanged; e2p_parametric_binary with
\* icc1 = icc2 = kappa = 1 returns the same record under both views.
C12_PerfectReliabilityIsNoOp ==
    /\ (op = "attenuate_d" /\ args.kappa = Q) => ret.value = args.true_d
    /\ (op = "compute_sigma_from_icc" /\ args.icc = Q)
       => err = "none" /\ ret.value = Q
    /\ (/\ op = "transform_for_target_reliability"
        /\ args.r_current = args.r_target
        /\ InHalfOpenUnit(args.r_current)
        /\ args.center \in {"mean", "median"}
        /\ AllFinite(args.x))
       => err = "none" /\ ~ret.none /\ ret.value = args.x
    /\ (/\ op = "transform_groups_for_target_kappa"
        /\ args.kappa_current = args.kappa_target
        /\ InHalfOpenUnit(args.kappa_current)
        /\ AllFinite(args.group1) /\ AllFinite(args.group2))
       => /\ err = "none" /\ ~ret.none
          /\ ret.value.group1 = args.group1
          /\ ret.value.group2 = args.group2
    /\ (/\ op = "e2p_parametric_binary"
        /\ args.icc1 = Q /\ args.icc2 = Q /\ args.kappa = Q)
       => \A other \in {e2p_parametric_binary(args.cohens_d, args.base_rate,
                           args.threshold_prob, args.icc1, args.icc2,
                           args.kappa, OtherView(args.view))} :
              /\ ret.none = other.raised
              /\ ~ret.none => ret.value = other.value

\* C12's case: the observed view computed a record at perfect reliability
C12_ObservedViewAtPerfectReliability ==
    /\ op = "e2p_parametric_binary"
    /\ args.view = "observed"
    /\ args.icc1 = Q /\ args.icc2 = Q /\ args.kappa = Q
    /\ args.cohens_d # 0
    /\ ~ret.none
    /\ ret.value.cohens_d_observed = args.cohens_d

\* rounding of the fixed-point arithmetic, in units of 1/Q
Rounding == Q \div 500
Near(a, b) == Abs(a - b) <= Rounding

\* each element's deviation from the mean of its own group
Deviations(g) == [i \in 1..Len(g) |-> g[i] - Mean(g)]

KappaScale(kappa_current, kappa_target) ==
    FSqrt(FDiv(Sin(FMul(HalfPi, kappa_target)),
               Sin(FMul(HalfPi, kappa_current))))

\* C14: transform_groups_for_target_kappa returns two groups whose mean
\* difference is scale times the original one, with scale =
\* sqrt(sin(pi/2 kappa_target) / sin(pi/2 kappa_current)); the average of
\* the two group means is unchanged, and so is every element's deviation
\* from the mean of its own group.
C14_KappaTransformMovesMeansOnly ==
    (op = "transform_groups_for_target_kappa" /\ ~ret.none)
    => /\ Near(Mean(ret.value.group2) - Mean(ret.value.group1),
               FMul(KappaScale(args.kappa_current, args.kappa_target),
                    Mean(args.group2) - Mean(args.group1)))
       /\ Mean(ret.value.group1) + Mean(ret.value.group2)
          = Mean(args.group1) + Mean(args.group2)
       /\ Deviations(ret.value.group1) = Deviations(args.group1)
       /\ Deviations(ret.value.group2) = Deviations(args.group2)

\* C14's case: the groups were moved apart
C14_GroupsMovedApart ==
    /\ op = "transform_groups_for_target_kappa"
    /\ ~ret.none
    /\ args.kappa_current < args.kappa_target
    /\ ret.value.group1 # args.group1
    /\ ret.value.group2 # args.group2

CenterOf(x, center) == IF center = "mean" THEN Mean(x) ELSE Median(x)

OrderPreserved(x, y) ==
    \A i, j \in 1..Len(x) : x[i] <= x[j] => y[i] <= y[j]

VarianceTolerance(v) == v \div 100 + Rounding

\* C15: transform_for_target_reliability is an exact, reversible linear
\* rescale: the transform from a to b followed by the one from b to a with
\* the same center returns x; the chosen center is unchanged; the order of
\* the elements is preserved; the sample variance is multiplied by a/b; and
\* the call raises for a non-finite x, for a or b outside (0, 1], and for a
\* center other than mean and median.
C15_ReliabilityTransformIsLinearRescale ==
    op = "transform_for_target_reliability"
    => /\ ret.none
          <=> \/ ~AllFinite(args.x)
              \/ ~InHalfOpenUnit(args.r_current)
              \/ ~InHalfOpenUnit(args.r_target)
              \/ args.center \notin {"mean", "median"}
       /\ ret.none <=> err # "none"
       /\ (~ret.none /\ Len(args.x) > 0)
          => /\ Len(ret.value) = Len(args.x)
             /\ Near(CenterOf(ret.value, args.center),
                     CenterOf(args.x, args.center))
             /\ OrderPreserved(args.x, ret.value)
             /\ Len(args.x) > 1
                => \A v \in {FMul(FDiv(args.r_current, args.r_target),
                                  Variance(args.x, 1))} :
                       Abs(Variance(ret.value, 1) - v)
                       <= VarianceTolerance(v)
       /\ (~ret.none /\ hist.set)
          => /\ Len(ret.value) = Len(hist.x)
             /\ \A i \in 1..Len(hist.x) : Near(ret.value[i], hist.x[i])

\* C15's case: a sample was rescaled and scaled back
C15_RescaledAndBack ==
    /\ op = "transform_for_target_reliability"
    /\ hist.set
    /\ ~ret.none
    /\ args.r_current # args.r_target
    /\ args.x # hist.x
    /\ Len(hist.x) > 1

----------------------------------------------------------------------------
(* SpecDeattenuation: e2p_binary on two groups, then                        *)
(* e2p_binary_deattenuated on the same groups with a reliability correction *)
(* alone, then the same call with a kappa correction added.  hist keeps the *)
(* estimates of the previous call of the chain.                             *)

DeattenuationSamples ==
    {[group1 |-> <<0, 1000, 2000>>, group2 |-> <<1000, 3000, 4000>>],
     [group1 |-> <<1000, 3000, 4000>>, group2 |-> <<0, 1000, 2000>>],
     [group1 |-> <<0, 2000, 4000>>, group2 |-> <<1000, 2000, 3000>>],
     [group1 |-> <<0, 3000, 3000>>, group2 |-> <<2000, 2000, 5000>>],
     [group1 |-> <<0, 1000, 1000, 2000>>, group2 |-> <<500, 2500>>],
     [group1 |-> <<-1000, 0, 500>>, group2 |-> <<-500, 0, 3000, 4000>>],
     [group1 |-> <<2000, 2500>>, group2 |-> <<0, 1000, 1000, 2000>>]}
DeattenuationReliabilities == {250, 500, 750}
DeattenuationKappas == {500, 800, 999}

ReliabilityArgs(r_current, kappa_current, center) ==
    [r_current |-> r_current, r_target |-> Q, kappa_current |-> kappa_current,
     kappa_target |-> Q, per_group |-> FALSE, r1_current |-> None,
     r2_current |-> None, r1_target |-> None, r2_target |-> None,
     center |-> center]

InitDeattenuation ==
    /\ Idle
    /\ rng = 0
    /\ kde \in 0..KdeGrain
    /\ bin = NoObject
    /\ cont = NoObject
    /\ hist = NoReference

\* the estimates of the call that ends: what the next one is compared with
Estimates(stage, e) ==
    IF e.raised THEN [set |-> FALSE]
    ELSE [set |-> TRUE, stage |-> stage,
          cohens_d |-> e.value.metrics["cohens_d"].estimate,
          roc_auc |-> e.value.metrics["roc_auc"].estimate]

PlainEstimate ==
    /\ op = "none"
    /\ \E s \in DeattenuationSamples :
        \E e \in {e2p_binary(s.group1, s.group2, 500, 500, 0, 950, None,
                             rng)} :
            /\ Invoke("e2p_binary",
                      [group1 |-> s.group1, group2 |-> s.group2,
                       base_rate |-> 500, threshold_prob |-> 500,
                       n_bootstrap |-> 0, ci_level |-> 950,
                       random_state |-> None], e)
            /\ hist' = hist
    /\ UNCHANGED <<bin, cont, kde>>

Deattenuate ==
    /\ op = "e2p_binary"
    /\ ~ret.none
    /\ \E r_current \in DeattenuationReliabilities :
        \E e \in {e2p_binary_deattenuated(args.group1, args.group2, 500, 500,
                      ReliabilityArgs(r_current, None, "mean"), 0, 950, None,
                      rng)} :
            /\ Invoke("e2p_binary_deattenuated",
                      [group1 |-> args.group1, group2 |-> args.group2,
                       base_rate |-> 500, threshold_prob |-> 500,
                       reliability |->
                           ReliabilityArgs(r_current, None, "mean"),
                       n_bootstrap |-> 0, ci_level |-> 950,
                       random_state |-> None], e)
            /\ hist' = Estimates("plain", [raised |-> FALSE, value |-> ret.value])
    /\ UNCHANGED <<bin, cont, kde>>

AddKappaCorrection ==
    /\ op = "e2p_binary_deattenuated"
    /\ ~ret.none
    /\ args.reliability.kappa_current = None
    /\ \E kappa_current \in DeattenuationKappas :
        \E e \in {e2p_binary_deattenuated(args.group1, args.group2, 500, 500,
                      ReliabilityArgs(args.reliability.r_current,
                                      kappa_current,
                                      args.reliability.center), 0, 950, None,
                      rng)} :
            /\ Invoke("e2p_binary_deattenuated",
                      [args EXCEPT !.reliability =
                          ReliabilityArgs(args.reliability.r_current,
                                          kappa_current,
                                          args.reliability.center)], e)
            /\ hist' = Estimates("reliability", [raised |-> FALSE, value |-> ret.value])
    /\ UNCHANGED <<bin, cont, kde>>

NextDeattenuation ==
    \/ PlainEstimate
    \/ Deattenuate
    \/ AddKappaCorrection

SpecDeattenuation == InitDeattenuation /\ [][NextDeattenuation]_vars

----------------------------------------------------------------------------
(* Properties of de-attenuation on empirical data                           *)

CohensD(results) == results.metrics["cohens_d"].estimate
RocAuc(results) == results.metrics["roc_auc"].estimate

Deattenuated == op = "e2p_binary_deattenuated" /\ ~ret.none /\ hist.set

\* C13: for any two valid groups, e2p_binary_deattenuated with r_current <
\* r_target = 1.0 and no kappa correction returns a Cohen's d estimate
\* strictly greater than that of e2p_binary on the untransformed groups and
\* an ROC-AUC estimate that is not lower; adding a kappa correction with
\* kappa_current < 1 returns a Cohen's d strictly greater again.
C13_DeattenuationRaisesD ==
    Deattenuated
    => /\ CohensD(ret.value) > hist.cohens_d
       /\ hist.stage = "plain" => RocAuc(ret.value) >= hist.roc_auc

\* C13 as amended: for two valid groups whose Cohen's d estimate is positive,
\* and the default center 'mean', the reliability correction alone returns a
\* strictly greater Cohen's d and an ROC-AUC that is not lower; adding a
\* kappa correction with kappa_current < 1 returns a Cohen's d that is not
\* lower, and strictly greater unless the scale
\* sqrt(1 / sin(pi/2 kappa_current)) is numerically 1, when
\* transform_groups_for_target_kappa returns the groups unchanged.
C13_DeattenuationRaisesPositiveD ==
    (Deattenuated /\ hist.cohens_d > 0)
    => /\ hist.stage = "plain"
          => /\ CohensD(ret.value) > hist.cohens_d
             /\ RocAuc(ret.value) >= hist.roc_auc
       /\ hist.stage = "reliability"
          => /\ CohensD(ret.value) >= hist.cohens_d
             /\ KappaScale(args.reliability.kappa_current, Q) # Q
                => CohensD(ret.value) > hist.cohens_d

\* C13's case: a positive estimate was raised by both corrections
C13_BothCorrectionsRaisedD ==
    /\ Deattenuated
    /\ hist.stage = "reliability"
    /\ hist.cohens_d > 0
    /\ args.reliability.kappa_current < Q
    /\ CohensD(ret.value) > hist.cohens_d

----------------------------------------------------------------------------
(* Properties of the view                                                   *)

\* a record with the echoed reliabilities and the observed d replaced
WithoutEchoes(record, other) ==
    [record EXCEPT !.icc1 = other.icc1, !.icc2 = other.icc2,
                   !.kappa = other.kappa,
                   !.cohens_d_observed = other.cohens_d_observed]

\* C16: for a real d the population model is selected by view alone: with
\* view = 'true'
\* e2p_parametric_binary uses sigma1 = sigma2 = 1 and the true d, so every
\* field of the result except the echoed icc1, icc2, kappa and
\* cohens_d_observed is the same for all valid icc1, icc2 and kappa; with
\* view = 'observed' it uses sigma_i = 1/sqrt(icc_i) and d attenuated by
\* kappa; and for d >= 0 the ROC-AUC under 'true' is never below the ROC-AUC
\* under 'observed'.
C16_ViewSelectsPopulationModel ==
    (op = "e2p_parametric_binary" /\ ~ret.none /\ ~IsNaN(args.cohens_d))
    => /\ args.view = "true"
          => /\ ret.value.sigma1 = Q /\ ret.value.sigma2 = Q
             /\ ret.value.d_eff = args.cohens_d
             /\ ret.value.roc_auc
                = compute_roc_auc_parametric(args.cohens_d, Q, Q)
             /\ \A perfect \in {e2p_parametric_binary(args.cohens_d,
                                    args.base_rate, args.threshold_prob,
                                    Q, Q, Q, "true").value} :
                    WithoutEchoes(ret.value, perfect) = perfect
       /\ args.view = "observed"
          => /\ ret.value.sigma1 = FDiv(Q, FSqrt(args.icc1))
             /\ ret.value.sigma2 = FDiv(Q, FSqrt(args.icc2))
             /\ ret.value.d_eff
                = FMul(args.cohens_d, FSqrt(Sin(FMul(HalfPi, args.kappa))))
             /\ args.cohens_d >= 0
                => compute_roc_auc_parametric(args.cohens_d, Q, Q)
                   >= ret.value.roc_auc

\* C16's case: the true view computed at imperfect reliabilities
C16_TrueViewAtImperfectReliability ==
    /\ op = "e2p_parametric_binary"
    /\ ~ret.none
    /\ args.view = "true"
    /\ args.icc1 < Q /\ args.icc2 < Q /\ args.kappa < Q
    /\ args.cohens_d > 0
    /\ ret.value.cohens_d_observed < args.cohens_d
    /\ ret.value.d_eff = args.cohens_d

----------------------------------------------------------------------------
(* SpecDiscrimination: compute_roc_auc_parametric or                        *)
(* compute_pr_auc_parametric at an effect size, then the same function at   *)
(* a greater effect size with the other arguments unchanged.  hist keeps    *)
(* the effect size and the value of the first call.                         *)

DiscriminationEffectSizes == {-1000, -500, 0, 500, 1000, 1500, 2000}
DiscriminationBaseRates == {100, 500}
DiscriminationSigmas ==
    {[sigma1 |-> Q, sigma2 |-> Q], [sigma1 |-> 2 * Q, sigma2 |-> Q],
     [sigma1 |-> Q, sigma2 |-> 2 * Q]}

\* a first call with any arguments, or a second one with a greater d
AtGreaterEffectSize(name, a) ==
    \/ op = "none"
    \/ /\ op = name
       /\ ~hist.set
       /\ a.cohens_d > args.cohens_d
       /\ a = [args EXCEPT !.cohens_d = a.cohens_d]

Discrimination(name, a, value) ==
    /\ AtGreaterEffectSize(name, a)
    /\ op' = name
    /\ args' = a
    /\ err' = "none"
    /\ ret' = Result(value)
    /\ steps' = <<"compute">>
    /\ hist' = IF op = "none" THEN hist
               ELSE [set |-> TRUE, cohens_d |-> args.cohens_d,
                     value |-> ret.value]
    /\ UNCHANGED <<rng, bin, cont, kde>>

ComputeRocAucParametric ==
    /\ op \in {"none", "compute_roc_auc_parametric"}
    /\ \E cohens_d \in DiscriminationEffectSizes, s \in DiscriminationSigmas :
        Discrimination("compute_roc_auc_parametric",
                       [cohens_d |-> cohens_d, sigma1 |-> s.sigma1,
                        sigma2 |-> s.sigma2],
                       compute_roc_auc_parametric(cohens_d, s.sigma1,
                                                  s.sigma2))

ComputePrAucParametric ==
    /\ op \in {"none", "compute_pr_auc_parametric"}
    /\ \E cohens_d \in DiscriminationEffectSizes,
          base_rate \in DiscriminationBaseRates, s \in DiscriminationSigmas :
        Discrimination("compute_pr_auc_parametric",
                       [cohens_d |-> cohens_d, base_rate |-> base_rate,
                        sigma1 |-> s.sigma1, sigma2 |-> s.sigma2],
                       compute_pr_auc_parametric(cohens_d, base_rate,
                                                 s.sigma1, s.sigma2,
                                                 n_points))

NextDiscrimination ==
    \/ ComputeRocAucParametric
    \/ ComputePrAucParametric

SpecDiscrimination == InitParametric /\ [][NextDiscrimination]_vars

----------------------------------------------------------------------------
(* Properties of the discrimination metrics                                 *)

PrAucNoise == Q \div 100

MonotoneInD ==
    /\ (op = "compute_roc_auc_parametric" /\ hist.set)
       => ret.value >= hist.value
    /\ (op = "compute_pr_auc_parametric" /\ hist.set)
       => ret.value >= hist.value - PrAucNoise

\* C19: for fixed base_rate in (0, 1) and fixed positive sigma1 and sigma2,
\* compute_roc_auc_parametric is non-decreasing in d, and
\* compute_pr_auc_parametric is non-decreasing in d (within 0.01) and never
\* below base_rate for d >= 0.
C19_DiscriminationMonotoneInD ==
    /\ MonotoneInD
    /\ (op = "compute_pr_auc_parametric" /\ args.cohens_d >= 0)
       => ret.value >= args.base_rate

\* C19 as amended: both functions are non-decreasing in d as stated, and
\* compute_pr_auc_parametric is never below base_rate for d >= 0 when
\* sigma1 = sigma2.
C19_PrAucAboveBaseRateAtEqualSigmas ==
    /\ MonotoneInD
    /\ (/\ op = "compute_pr_auc_parametric"
        /\ args.cohens_d >= 0
        /\ args.sigma1 = args.sigma2)
       => ret.value >= args.base_rate

\* C19's case: PR-AUC computed at two effect sizes, the second one greater
C19_PrAucRaisedWithD ==
    /\ op = "compute_pr_auc_parametric"
    /\ hist.set
    /\ hist.cohens_d >= 0
    /\ args.cohens_d > hist.cohens_d
    /\ args.sigma1 = args.sigma2
    /\ ret.value > hist.value
    /\ hist.value >= args.base_rate

----------------------------------------------------------------------------
(* Properties of the ranges of the parametric results                      *)

InUnit(x) == ~IsNaN(x) /\ 0 <= x /\ x <= Q

ParametricCall == op \in {"e2p_parametric_binary", "e2p_parametric_continuous"}

\* C17: for every input accepted by e2p_parametric_binary or
\* e2p_parametric_continuous, the returned roc_auc, pr_auc, sensitivity,
\* specificity, ppv, npv and accuracy each lie in [0, 1], youden_j lies in
\* [-1, 1], and none of them is NaN.
C17_ResultsInRange ==
    (ParametricCall /\ ~ret.none)
    => /\ InUnit(ret.value.roc_auc)
       /\ InUnit(ret.value.pr_auc)
       /\ \A key \in {"sensitivity", "specificity", "ppv", "npv", "accuracy"} :
              InUnit(ret.value.metrics[key])
       /\ ~IsNaN(ret.value.metrics.youden_j)
       /\ -Q <= ret.value.metrics.youden_j
       /\ ret.value.metrics.youden_j <= Q

----------------------------------------------------------------------------
(* SpecBootstrap: a calculator is built and compute is called on it, once   *)
(* or again.  hist holds the sample pairs on which the root search does not *)
(* converge, and the generator state each compute started from.             *)

BootstrapSamples ==
    {[group1 |-> <<0, 1000>>, group2 |-> <<1000, 2000, 4000>>],
     [group1 |-> <<0, 1000, 3000>>, group2 |-> <<2000, 3000>>]}
BootstrapIterations == {0, 3}
BootstrapCiLevels == {500, 950}
BootstrapBaseRates == {300}
BootstrapThresholdProbs == {500}

\* the pair of resamples one iteration draws from generator state state
ResamplePair(sample, state) ==
    <<choice(sample.group1, Len(sample.group1), state).sample,
      choice(sample.group2, Len(sample.group2),
             choice(sample.group1, Len(sample.group1), state).state).sample>>

\* no root search fails, or the one on a resample or on the sample itself
DivergingSets ==
    {{}} \cup {{ResamplePair(sample, state)} :
                   sample \in BootstrapSamples, state \in 0..(RngModulus - 1)}
         \cup {{<<sample.group1, sample.group2>>} : sample \in BootstrapSamples}

InitBootstrap ==
    /\ Idle
    /\ rng \in 0..(RngModulus - 1)
    /\ kde \in 0..KdeGrain
    /\ bin = NoObject
    /\ cont = NoObject
    /\ hist \in {[set |-> FALSE, diverging |-> d, state |-> 0] :
                    d \in DivergingSets}

NewBootstrapBinary ==
    /\ ~bin.exists
    /\ \E sample \in BootstrapSamples, n_bootstrap \in BootstrapIterations,
          ci_level \in BootstrapCiLevels, random_state \in RandomStates,
          base_rate \in BootstrapBaseRates,
          threshold_prob \in BootstrapThresholdProbs :
        \E made \in {E2PBinary(sample.group1, sample.group2,
                               base_rate, threshold_prob,
                               n_bootstrap, ci_level, random_state)} :
            /\ Invoke("E2PBinary",
                      [group1 |-> sample.group1, group2 |-> sample.group2,
                       base_rate |-> base_rate,
                       threshold_prob |-> threshold_prob,
                       n_bootstrap |-> n_bootstrap, ci_level |-> ci_level,
                       random_state |-> random_state],
                      Effect(Ok(NaN), <<"validate", "seed">>,
                             seed(random_state, rng), NoObject))
            /\ bin' = made.value
            /\ UNCHANGED <<cont, kde, hist>>

BootstrapCompute ==
    /\ bin.exists
    /\ Invoke("E2PBinary.compute", <<>>, E2PBinary_compute(bin, rng))
    /\ hist' = [hist EXCEPT !.set = TRUE, !.state = rng]
    /\ UNCHANGED <<bin, cont, kde>>

\* other code builds a calculator of its own and computes on it, between
\* the construction of bin and a compute on it
OtherCalculator ==
    /\ bin.exists
    /\ op # "e2p_binary"
    /\ \E sample \in BootstrapSamples, random_state \in RandomStates,
          base_rate \in BootstrapBaseRates,
          threshold_prob \in BootstrapThresholdProbs :
        /\ Invoke("e2p_binary",
                  [group1 |-> sample.group1, group2 |-> sample.group2,
                   base_rate |-> base_rate,
                   threshold_prob |-> threshold_prob,
                   n_bootstrap |-> 1, ci_level |-> 950,
                   random_state |-> random_state],
                  e2p_binary(sample.group1, sample.group2, base_rate,
                             threshold_prob, 1, 950, random_state, rng))
        /\ UNCHANGED <<bin, cont, kde, hist>>

NextBootstrap ==
    \/ NewBootstrapBinary
    \/ BootstrapCompute
    \/ OtherCalculator

SpecBootstrap == InitBootstrap /\ [][NextBootstrap]_vars

----------------------------------------------------------------------------
(* Properties of the bootstrap                                              *)

\* the resamples the loop of compute draws in i iterations from generator
\* state state, each with the generator state after it
RECURSIVE Resamples(_, _, _)
Resamples(self, i, state) ==
    IF i <= 0 THEN <<>>
    ELSE LET g1_boot == choice(self.group1, self.n1, state)
             g2_boot == choice(self.group2, self.n2, g1_boot.state)
         IN <<[group1 |-> g1_boot.sample, group2 |-> g2_boot.sample,
               state |-> g2_boot.state]>>
            \o Resamples(self, i - 1, g2_boot.state)

Returned(outcome) == ~outcome.raised
AllMetricsFinite(metrics) == \A key \in MetricKeys : IsFinite(metrics[key])
Values(outcomes) == [k \in 1..Len(outcomes) |-> outcomes[k].value]

\* compute has been called on bin, from generator state hist.state
Computed == op = "E2PBinary.compute" /\ hist.set

PointEstimates ==
    compute_all_metrics(bin.group1, bin.group2, bin.base_rate,
                        bin.threshold_prob)

Drawn == Resamples(bin, bin.n_bootstrap, hist.state)

\* the metric battery of every resample drawn, or the exception it raised
Batteries ==
    [k \in 1..Len(Drawn) |->
        compute_all_metrics(Drawn[k].group1, Drawn[k].group2, bin.base_rate,
                            bin.threshold_prob)]

\* the batteries of the resamples that did not raise
Kept == Values(SelectSeq(Batteries, Returned))

\* the batteries without a non-finite value
Retained == SelectSeq(Kept, AllMetricsFinite)

\* C22: in E2PBinary.compute an exception raised while the metric battery of
\* a resample is computed is swallowed: the resample adds no value to any
\* metric's bootstrap list, all n_bootstrap iterations run and compute
\* returns a result; an exception raised while the point estimates are
\* computed on the original sample ends the call before any resample is
\* drawn.
C22_ResampleErrorNeverEscalates ==
    Computed
    => /\ PointEstimates.raised
          => /\ ret.none
             /\ err = PointEstimates.error
             /\ rng = hist.state
       /\ ~PointEstimates.raised
          => /\ ~ret.none
             /\ rng = IF Drawn = <<>> THEN hist.state
                      ELSE Drawn[Len(Drawn)].state
             /\ \A kept \in {Kept}, point \in {PointEstimates.value} :
                    \A key \in MetricKeys :
                        ret.value.metrics[key]
                        = make_metric_with_ci(key, point, kept, bin.ci_level)

\* C22's case: compute returned although the battery of a resample raised
\* before the last iteration
C22_ResampleRaisedAndComputeReturned ==
    /\ Computed
    /\ ~ret.none
    /\ \E batteries \in {Batteries} :
        /\ Len(batteries) = 3
        /\ batteries[1].raised \/ batteries[2].raised
        /\ ~batteries[3].raised

\* the finite bootstrap values of a metric
FiniteValues(kept, key) ==
    SelectSeq([k \in 1..Len(kept) |-> kept[k][key]], IsFinite)

Elements(g) == {g[i] : i \in 1..Len(g)}

\* the interval m of a metric with point estimate estimate and finite
\* bootstrap values values
PercentileInterval(m, estimate, values, ci_level) ==
    /\ m.estimate = estimate
    /\ values # <<>>
       => /\ m.ci_lower = Percentile(values, (Q - ci_level) \div 2)
          /\ m.ci_upper = Percentile(values, Q - (Q - ci_level) \div 2)
    /\ values = <<>> => m.ci_lower = estimate /\ m.ci_upper = estimate
    /\ ~IsNaN(m.ci_lower) /\ ~IsNaN(m.ci_upper)
    /\ m.ci_lower <= m.ci_upper

C24_NonFiniteResampleDiscardedWhole ==
    (Computed /\ ~ret.none)
    => \A retained \in {Retained}, point \in {PointEstimates.value} :
           \A key \in MetricKeys :
               ret.value.metrics[key]
               = make_metric_with_ci(key, point, retained, bin.ci_level)

\* C25: the confidence intervals compute returns on an instance built with
\* random_state = s depend only on the instance's sample, parameters and s:
\* they are those of a compute that starts from the generator seeded with s,
\* whatever was constructed or computed since the instance was built and
\* whether compute is called for the first or a later time.
C25_IntervalsDependOnInstanceOnly ==
    (Computed /\ ~ret.none /\ bin.random_state # None)
    => \A alone \in {E2PBinary_compute(bin, seed(bin.random_state, 0))} :
           ret.value = alone.value

----------------------------------------------------------------------------
(* Properties of the conversion dispatcher                                  *)

\* C21: convert_effect_size is d-mediated: an unknown from_type or to_type
\* raises before any conversion runs; otherwise the from_type converter maps
\* the value to Cohen's d, and its domain error (odds ratio <= 0, u3 outside
\* (0, 1)) propagates with no result; otherwise the to_type converter maps
\* that d, and the result carries the input value, the output value and the
\* intermediate cohens_d; from_type = to_type = 'd' returns the value
\* unchanged.
C21_ConversionIsDMediated ==
    (op = "convert_effect_size")
    => /\ (args.from_type \notin EffectSizeTypes
           \/ args.to_type \notin EffectSizeTypes)
          => ret.none /\ err # "none" /\ steps = <<"validate">>
       /\ (args.from_type \in EffectSizeTypes
           /\ args.to_type \in EffectSizeTypes)
          => /\ to_d(args.from_type, args.value).raised
                => /\ ret.none
                   /\ err = to_d(args.from_type, args.value).error
                   /\ steps = <<"validate", "to_d">>
             /\ ~ret.none
                => /\ ret.value.input_value = args.value
                   /\ ret.value.cohens_d
                      = to_d(args.from_type, args.value).value
                   /\ ret.value.output_value
                      = from_d(args.to_type, ret.value.cohens_d,
                               args.base_rate).value
                   /\ steps = <<"validate", "to_d", "from_d">>
             /\ (args.from_type = "d" /\ args.to_type = "d")
                => ~ret.none /\ ret.value.output_value = args.value

\* C21's case: a conversion between two types other than d, through a d that
\* is neither the input nor the output
C21_ConvertedThroughD ==
    /\ op = "convert_effect_size"
    /\ ~ret.none
    /\ args.from_type = "r" /\ args.to_type = "r"
    /\ IsFinite(ret.value.cohens_d)
    /\ ret.value.cohens_d # args.value
    /\ ret.value.cohens_d # ret.value.output_value

----------------------------------------------------------------------------
(* SpecThreshold: one call of find_optimal_threshold.                       *)

ThresholdEffectSizes == {-17 * Q, -6 * Q, -Q, 0, 800, 2 * Q}
ThresholdBaseRates == {100, 500}
Metrics == {"youden", "f1", "accuracy"}

\* the spacing of the thresholds at which the model evaluates the objective
SearchStep == Q \div 10

\* the objective of find_optimal_threshold: the negated F1 for metric 'f1',
\* the negated Youden's J for every other metric
objective(cohens_d, base_rate, sigma1, sigma2, metric, t) ==
    -compute_binary_metrics(cohens_d, base_rate, t, sigma1,
                            sigma2)[IF metric = "f1" THEN "f1" ELSE "youden_j"]

t_min(sigma1, sigma2) == -8 * Max(sigma1, sigma2)
t_max(cohens_d, sigma1, sigma2) == 8 * Max(sigma1, sigma2) + cohens_d

\* the thresholds of the search range, SearchStep apart, and its upper end
SearchPoints(lo, hi) ==
    {lo + k * SearchStep : k \in 0..((hi - lo) \div SearchStep)} \cup {hi}

\* scipy's minimize_scalar(objective, bounds = (lo, hi), method = 'bounded')
\* for the objective tabulated in values: it raises ValueError when the lower
\* bound exceeds the upper one; otherwise its iteration ends at a point of
\* the range where the objective is not above its neighbours inside the
\* range, and the model leaves open at which of these points it ends
minimize_scalar(values, lo, hi) ==
    IF lo > hi THEN {Raise("ValueError")}
    ELSE {Ok(x) : x \in {t \in DOMAIN values :
                            \A n \in {t - SearchStep, t + SearchStep}
                                       \cap DOMAIN values :
                                values[t] <= values[n]}}

\* the outcomes of find_optimal_threshold
find_optimal_threshold(cohens_d, base_rate, sigma1, sigma2, metric) ==
    minimize_scalar([t \in SearchPoints(t_min(sigma1, sigma2),
                                        t_max(cohens_d, sigma1, sigma2))
                       |-> objective(cohens_d, base_rate, sigma1, sigma2,
                                     metric, t)],
                    t_min(sigma1, sigma2), t_max(cohens_d, sigma1, sigma2))

FindOptimalThreshold ==
    /\ op = "none"
    /\ \E cohens_d \in ThresholdEffectSizes, base_rate \in ThresholdBaseRates,
          s \in DiscriminationSigmas, metric \in Metrics :
        \E outcome \in find_optimal_threshold(cohens_d, base_rate, s.sigma1,
                                              s.sigma2, metric) :
            /\ Call("find_optimal_threshold",
                    [cohens_d |-> cohens_d, base_rate |-> base_rate,
                     sigma1 |-> s.sigma1, sigma2 |-> s.sigma2,
                     metric |-> metric],
                    Phased(outcome))
            /\ UNCHANGED <<rng, bin, cont, kde, hist>>

NextThreshold == FindOptimalThreshold

SpecThreshold == InitParametric /\ [][NextThreshold]_vars

----------------------------------------------------------------------------
(* Properties of the optimal threshold                                      *)

\* the selected metric of the call in args at threshold t
SelectedMetric(t) ==
    -objective(args.cohens_d, args.base_rate, args.sigma1, args.sigma2,
               args.metric, t)

\* C18: find_optimal_threshold called with a metric of the enum
\* {youden, f1} returns a threshold inside the search bounds
\* [-8 * max(sigma1, sigma2), 8 * max(sigma1, sigma2) + d] at which the
\* selected metric is at least its value at threshold - 0.1 and at
\* threshold + 0.1, up to the tolerance.
C18_OptimalThresholdIsLocalMaximum ==
    (op = "find_optimal_threshold" /\ args.metric \in {"youden", "f1"})
    => /\ ~ret.none
       /\ t_min(args.sigma1, args.sigma2) <= ret.value
       /\ ret.value <= t_max(args.cohens_d, args.sigma1, args.sigma2)
       /\ \A t \in {ret.value - Q \div 10, ret.value + Q \div 10} :
              SelectedMetric(ret.value) >= SelectedMetric(t) - Rounding

----------------------------------------------------------------------------
(* SpecBisection: one call of compute_threshold_from_pt, on effect sizes    *)
(* on both sides of -16 * max(sigma1, sigma2), where the upper search bound *)
(* 8 * max(sigma1, sigma2) + d falls below the lower one.                   *)

BisectionEffectSizes == {-20000, -17000, -16000, -2000, 0, 800, 3000}
BisectionProbabilities == {0, 100, 500, 900, 1000}
BisectionBaseRates == {100, 500, 900}
BisectionSigmas == {1000, 2000}

ComputeThresholdFromPt ==
    /\ op = "none"
    /\ \E cohens_d \in BisectionEffectSizes, pt \in BisectionProbabilities,
          base_rate \in BisectionBaseRates,
          sigma1 \in BisectionSigmas, sigma2 \in BisectionSigmas :
        /\ Call("compute_threshold_from_pt",
                [cohens_d |-> cohens_d, pt |-> pt, base_rate |-> base_rate,
                 sigma1 |-> sigma1, sigma2 |-> sigma2],
                Outcome(Ok(compute_threshold_from_pt(cohens_d, pt, base_rate,
                                                     sigma1, sigma2)),
                        <<"compute">>))
        /\ UNCHANGED <<rng, bin, cont, kde, hist>>

NextBisection == ComputeThresholdFromPt

SpecBisection == InitParametric /\ [][NextBisection]_vars

----------------------------------------------------------------------------
(* Properties of the bisection                                              *)

\* C26: compute_threshold_from_pt, for every real d, pt and base_rate and
\* positive sigmas, evaluates the posterior at most 100 times, does not
\* raise, and returns a value inside the initial search bounds
\* [-8 * max(sigma1, sigma2), 8 * max(sigma1, sigma2) + d], the lower of
\* which is not above the upper: left <= right from the first iteration on.
C26_BisectionStaysInSearchBounds ==
    op = "compute_threshold_from_pt"
    => /\ ~ret.none
       /\ ret.value.evals <= max_iter
       /\ SearchLeft(args.sigma1, args.sigma2)
              <= SearchRight(args.cohens_d, args.sigma1, args.sigma2)
       /\ SearchLeft(args.sigma1, args.sigma2) <= ret.value.threshold
       /\ ret.value.threshold
              <= SearchRight(args.cohens_d, args.sigma1, args.sigma2)

----------------------------------------------------------------------------
(* SpecSampleStatistics: one call of convert_pt_to_threshold, on samples    *)
(* with and without a group whose kernel density estimate cannot be built,  *)
(* or one call of compute_roc_auc, on samples with and without ties.        *)

DegenerateSamples ==
    {[group1 |-> <<1000, 1000, 1000>>, group2 |-> <<2000, 3000>>],
     [group1 |-> <<0, 1000>>, group2 |-> <<2000, 2000>>],
     [group1 |-> <<1000, 1000>>, group2 |-> <<1000, 1000, 1000>>],
     [group1 |-> <<0>>, group2 |-> <<1000, 2000>>],
     [group1 |-> <<0, 1000, 2000>>, group2 |-> <<3000>>],
     [group1 |-> <<0>>, group2 |-> <<1000>>]}
RegularSamples ==
    {[group1 |-> <<0, 1000, 3000>>, group2 |-> <<2000, 3000>>]}
PosteriorBaseRates == {100, 300, 500}
PosteriorProbabilities == {100, 500, 900}

ConvertPtToThreshold ==
    /\ op = "none"
    /\ \E sample \in DegenerateSamples \cup RegularSamples,
          base_rate \in PosteriorBaseRates, pt \in PosteriorProbabilities :
        /\ Call("convert_pt_to_threshold",
                [g1 |-> sample.group1, g2 |-> sample.group2,
                 base_rate |-> base_rate, pt |-> pt],
                Phased(convert_pt_to_threshold(sample.group1, sample.group2,
                                               base_rate, pt)))
        /\ UNCHANGED <<rng, bin, cont, kde, hist>>

\* samples with ties inside a group and across the groups
RocSamples ==
    {<<1000>>, <<0, 1000>>, <<1000, 1000>>, <<0, 1000, 1000>>,
     <<1000, 2000, 3000>>, <<2000, 2000, 2000>>, <<-1000, 0, 2000>>,
     <<0, 1000, 2000, 2000>>}

ComputeRocAuc ==
    /\ op = "none"
    /\ \E g1 \in RocSamples, g2 \in RocSamples :
        /\ Call("compute_roc_auc", [g1 |-> g1, g2 |-> g2],
                Outcome(Ok(compute_roc_auc(g1, g2)), <<"compute">>))
        /\ UNCHANGED <<rng, bin, cont, kde, hist>>

NextSampleStatistics ==
    \/ ConvertPtToThreshold
    \/ ComputeRocAuc

SpecSampleStatistics == InitEmpirical /\ [][NextSampleStatistics]_vars

----------------------------------------------------------------------------
(* Properties of the posterior threshold                                    *)

\* C27: convert_pt_to_threshold does not fail on degenerate samples: also
\* when the kernel density estimate of a group cannot be built (all values
\* of the group identical, or a single-element group) it returns a
\* threshold, and the threshold is finite.
C27_DegenerateSampleYieldsThreshold ==
    op = "convert_pt_to_threshold"
    => ~ret.none /\ IsFinite(ret.value)

----------------------------------------------------------------------------
(* Properties of the rank statistic                                         *)

\* twice the mid-rank of x in the pooled sample: values below it, and half
\* of the positions its ties with itself included occupy
TwiceMidRank(x, pooled) ==
    2 * Cardinality({i \in 1..Len(pooled) : pooled[i] < x})
    + Cardinality({i \in 1..Len(pooled) : pooled[i] = x}) + 1

\* the rank-sum estimator: U = R2 - n2 * (n2 + 1) / 2 over n1 * n2, with R2
\* the sum of the mid-ranks of the cases in the pooled sample
RankSumAuc(g1, g2) ==
    LET twiceR2 == SumSeq([j \in 1..Len(g2) |-> TwiceMidRank(g2[j], g1 \o g2)])
    IN DivRound((twiceR2 - Len(g2) * (Len(g2) + 1)) * Q,
                2 * Len(g1) * Len(g2))

\* C28: compute_roc_auc(g1, g2) on non-empty samples, ties included, is the
\* rank-sum (Mann-Whitney) estimator with mid-ranks; it lies in [0, 1],
\* compute_roc_auc(g1, g2) + compute_roc_auc(g2, g1) = 1 up to the rounding
\* of the two quotients, and it is 0.5 when every value of both groups is
\* the same.
C28_RocAucIsMidRankStatistic ==
    op = "compute_roc_auc"
    => /\ ~ret.none
       /\ ret.value = RankSumAuc(args.g1, args.g2)
       /\ 0 <= ret.value /\ ret.value <= Q
       /\ Abs(ret.value + compute_roc_auc(args.g2, args.g1) - Q) <= Rounding
       /\ IsConstant(args.g1 \o args.g2) => ret.value = Q \div 2

\* an area computed from ties: inside one group and between the two
C28_TiedSamples ==
    /\ op = "compute_roc_auc"
    /\ args.g1 = <<0, 1000, 1000>>
    /\ args.g2 = <<0, 1000, 2000, 2000>>
    /\ ret.value = 708

----------------------------------------------------------------------------
(* Properties of the Y-reliability arguments                                *)

\* the call in args with the Y-reliability pair left out, on the instance
\* cont, whose seed fixes the generator
WithoutYReliability ==
    E2PContinuous_compute_at_reliability(
        cont, [args EXCEPT !.r_y_current = None, !.r_y_target = None], 0)

\* C29: E2PContinuous.compute_at_reliability on a seeded instance ends, for
\* every pair (r_y_current, r_y_target) of reliabilities in (0, 1], as it
\* ends with the pair omitted, with the same results; with exactly one of
\* the two supplied it raises and returns no result.
C29_YReliabilityWithoutInfluence ==
    (op = "E2PContinuous.compute_at_reliability" /\ cont.random_state # None)
    => /\ (InHalfOpenUnit(args.r_y_current) /\ InHalfOpenUnit(args.r_y_target))
          => \A omitted \in {WithoutYReliability} :
                 ret.none = omitted.raised /\ ret.value = omitted.value
       /\ (args.r_y_current = None) # (args.r_y_target = None)
          => ret.none /\ err # "none"

----------------------------------------------------------------------------
(* Properties of E2PBinary.compute_at_reliability                           *)

InstanceFields ==
    {"group1", "group2", "n1", "n2", "base_rate", "threshold_prob"}

\* the reliability rescale of each group of self, by the arguments a
Rescaled(self, a) ==
    [group1 |-> transform_for_target_reliability(self.group1,
                    IF a.per_group THEN a.r1_current ELSE a.r_current,
                    IF a.per_group THEN a.r1_target ELSE a.r_target,
                    a.center).value,
     group2 |-> transform_for_target_reliability(self.group2,
                    IF a.per_group THEN a.r2_current ELSE a.r_current,
                    IF a.per_group THEN a.r2_target ELSE a.r_target,
                    a.center).value]

\* the rescaled groups, mean-shifted when kappa_current is given
RescaledThenShifted(rescaled, a) ==
    IF a.kappa_current = None THEN rescaled
    ELSE transform_groups_for_target_kappa(rescaled.group1, rescaled.group2,
                                           a.kappa_current,
                                           a.kappa_target).value

\* C30: E2PBinary.compute_at_reliability leaves group1, group2, n1, n2,
\* base_rate and threshold_prob of its instance as they were, when it
\* returns and when it raises; the calculator it computes on holds the
\* groups rescaled first and mean-shifted second, the latter only when
\* kappa_current is given; and a compute() that follows on the instance
\* returns the point estimates of the untransformed groups.
C30_ReliabilityLeavesInstance ==
    [][/\ (bin.exists /\ op' = "E2PBinary.compute_at_reliability")
          => /\ bin'.exists
             /\ \A f \in InstanceFields : bin'[f] = bin[f]
             /\ ret'.calculator.exists
                => \A tgt \in {RescaledThenShifted(Rescaled(bin, args'),
                                                    args')} :
                       /\ ret'.calculator.group1 = tgt.group1
                       /\ ret'.calculator.group2 = tgt.group2
       /\ (bin.exists /\ op = "E2PBinary.compute_at_reliability"
             /\ op' = "E2PBinary.compute")
          => \A point \in {compute_all_metrics(bin.group1, bin.group2,
                                               bin.base_rate,
                                               bin.threshold_prob)} :
                 /\ ret'.none = point.raised
                 /\ ~point.raised
                    => \A key \in MetricKeys :
                           ret'.value.metrics[key].estimate
                               = point.value[key]]_vars

\* C30's case: compute_at_reliability has computed on groups rescaled about
\* their medians and then moved apart, where the order of the two stages
\* shows, and the instance still holds the groups it was built with
C30_ComputedOnRescaledThenShifted ==
    /\ op = "E2PBinary.compute_at_reliability"
    /\ err = "none"
    /\ args.kappa_current # None
    /\ args.center = "median"
    /\ ret.calculator.exists
    /\ ret.calculator.group1 # bin.group1
    /\ bin.group1 = <<0, 0, 3000>>
    /\ bin.n1 = 3

====
